---- MODULE Spec2Model ----
(***************************************************************************)
(* The tree-construction stage of the exp/html parser (parse.go).          *)
(*                                                                         *)
(* The parser is the record p: the fields of the Go struct plus the heap   *)
(* of nodes (p.nodes, a node is its index in it).  Every handler of the    *)
(* source is an operator from a parser to a result: the parser after the   *)
(* handler, whether the token was consumed, and the implied token the      *)
(* handler asks parseImpliedToken to parse (if any).  The loop of          *)
(* parseCurrentToken, the recursion of parseImpliedToken and the loop of   *)
(* parse are the actions.                                                  *)
(*                                                                         *)
(* Go indices start at 0 and -1 means "none"; here they start at 1 and 0   *)
(* means "none".  A Text node's payload (Go: Data) is the field Text, a    *)
(* sequence of characters; the field Data holds tag names, doctype names   *)
(* and comments.                                                           *)
(***************************************************************************)
EXTENDS Integers, Sequences, FiniteSets, TLC

VARIABLES
  p,       \* the parser, with the heap of nodes and the tokenizer's state
  pc,      \* where the program is: start, read, loop, exit, return, done, panic
  frames,  \* the calls of parseImpliedToken that have not returned
  rdErr,   \* the variable err of parse
  ntok,    \* the number of calls of read
  ndisp,   \* the number of calls of parseCurrentToken made by parse
  nloop,   \* the iterations of parseCurrentToken's loop since the last read
  ret,     \* what Parse or ParseFragment returned
  cfg      \* the call: the entry point, its context, and the input's alphabet

vars == <<p, pc, frames, rdErr, ntok, ndisp, nloop, ret, cfg>>

(* ------------------------------------------------------------------ *)
(* Bounds of the model.                                                *)
(* ------------------------------------------------------------------ *)

\* The number of tokens the tokenizer delivers before it must deliver EOF.
MaxTokens == 3

\* The number of iterations of parseCurrentToken's loops a single token read
\* by parse may take in the model.
MaxLoop == 24

\* The number of tokens of an input over the alphabet of the adoption agency.
MaxAdoptionTokens == 5

(* ------------------------------------------------------------------ *)
(* Nodes (node.go): the operations on nodes, after the data model of  *)
(* the specification.                                                  *)
(* ------------------------------------------------------------------ *)

Nil == 0

NewNode(type, data, attr) ==
  [Type |-> type, Data |-> data, Text |-> <<>>, Namespace |-> "",
   Attr |-> attr, Parent |-> Nil, Child |-> <<>>]

NewText(text) ==
  [Type |-> "Text", Data |-> "", Text |-> text, Namespace |-> "",
   Attr |-> <<>>, Parent |-> Nil, Child |-> <<>>]

\* The heap at construction: the document, and the package's scopeMarker.
Doc == 1
scopeMarker == 2

Max(S) == CHOOSE x \in S : \A y \in S : y <= x
Min(S) == CHOOSE x \in S : \A y \in S : x <= y

Last(s) == s[Len(s)]
Front(s) == SubSeq(s, 1, Len(s) - 1)
Range(s) == {s[i] : i \in 1..Len(s)}

\* A Go panic (explicit, or a run-time error): the parse is aborted, and
\* nothing the handler does afterwards happens.
Panic(q, msg) == IF q.panic # "" THEN q ELSE [q EXCEPT !.panic = msg]
Ok(q) == q.panic = ""

\* Allocating a node: it gets the next index of the heap.
Alloc(q, n) == [q EXCEPT !.nodes = Append(@, n)]
NewId(q) == Len(q.nodes) + 1

\* Node.Add: child becomes the last child of parent; it must have no parent.
NodeAdd(q, parent, child) ==
  IF ~Ok(q) THEN q
  ELSE IF q.nodes[child].Parent # Nil
  THEN Panic(q, "html: Node.Add called for a child Node that already has a parent")
  ELSE [q EXCEPT !.nodes[child].Parent = parent,
                 !.nodes[parent].Child = Append(@, child)]

RemoveAt(s, i) == SubSeq(s, 1, i - 1) \o SubSeq(s, i + 1, Len(s))
InsertAt(s, i, x) == SubSeq(s, 1, i - 1) \o <<x>> \o SubSeq(s, i, Len(s))

\* The first position of x in s, 0 if none.
FirstIndex(s, x) ==
  IF \E i \in 1..Len(s) : s[i] = x
  THEN Min({i \in 1..Len(s) : s[i] = x}) ELSE 0

\* Node.Remove: child is detached from parent, whose child it must be.
NodeRemove(q, parent, child) ==
  IF ~Ok(q) THEN q
  ELSE IF q.nodes[child].Parent = parent /\ FirstIndex(q.nodes[parent].Child, child) # 0
  THEN [q EXCEPT !.nodes[child].Parent = Nil,
                 !.nodes[parent].Child = RemoveAt(@, FirstIndex(@, child))]
  ELSE Panic(q, "html: Node.Remove called for a non-child Node")

\* reparentChildren: the children of src become the last children of dst.
reparentChildren(q, dst, src) ==
  IF ~Ok(q) THEN q
  ELSE LET kids == q.nodes[src].Child IN
    IF \E i \in 1..Len(kids) : q.nodes[kids[i]].Parent # src
    THEN Panic(q, "html: nodes have an inconsistent parent/child relationship")
    ELSE [q EXCEPT !.nodes =
            [i \in 1..Len(q.nodes) |->
               IF i = dst /\ i = src THEN q.nodes[i]
               ELSE IF i = dst THEN [q.nodes[i] EXCEPT !.Child = @ \o kids]
               ELSE IF i = src THEN [q.nodes[i] EXCEPT !.Child = <<>>]
               ELSE IF i \in Range(kids) THEN [q.nodes[i] EXCEPT !.Parent = dst]
               ELSE q.nodes[i]]]

\* Node.clone: a parentless, childless copy with the same type, data,
\* namespace and attributes.
clone(n) ==
  [Type |-> n.Type, Data |-> n.Data, Text |-> n.Text, Namespace |-> n.Namespace,
   Attr |-> n.Attr, Parent |-> Nil, Child |-> <<>>]

(* ------------------------------------------------------------------ *)
(* nodeStack (node.go): the stack of open elements and the list of     *)
(* active formatting elements are sequences of nodes.                  *)
(* ------------------------------------------------------------------ *)

\* nodeStack.index: the highest position of n in s, 0 if none.
index(s, n) ==
  IF \E i \in 1..Len(s) : s[i] = n
  THEN Max({i \in 1..Len(s) : s[i] = n}) ELSE 0

\* nodeStack.remove: s without its highest occurrence of n.
remove(s, n) == IF index(s, n) = 0 THEN s ELSE RemoveAt(s, index(s, n))

\* nodeStack.insert: n is put at position i.
insert(s, i, n) == InsertAt(s, i, n)

\* nodeStack.top: the last node, nil when the stack is empty.
stackTop(s) == IF Len(s) > 0 THEN Last(s) ELSE Nil

\* nodeStack.pop on the stack of open elements; popping an empty stack is a
\* run-time error.
oePop(q) ==
  IF ~Ok(q) THEN q
  ELSE IF Len(q.oe) = 0 THEN Panic(q, "runtime error: index out of range")
  ELSE [q EXCEPT !.oe = Front(@)]

(* ------------------------------------------------------------------ *)
(* Stack and scope queries.                                            *)
(* ------------------------------------------------------------------ *)

topIsDocument(q) == q.doc

\* parser.top: the current node, the document when no element is open.
top(q) == IF stackTop(q.oe) # Nil THEN stackTop(q.oe) ELSE q.doc

defaultScopeStopTagsOfHTML(ns) ==
  {"applet", "caption", "html", "table", "td", "th", "marquee", "object"}

defaultScopeStopTags(ns) ==
  CASE ns = "" -> {"applet", "caption", "html", "table", "td", "th", "marquee", "object"}
    [] ns = "math" -> {"annotation-xml", "mi", "mn", "mo", "ms", "mtext"}
    [] ns = "svg" -> {"desc", "foreignObject", "title"}
    [] OTHER -> {}

Unreachable == -1

\* The loop of indexOfElementInScope from position i down: the position of
\* the match, 0 when there is none in scope, Unreachable for the panic of
\* the switch's default arm.
RECURSIVE scopeWalk(_, _, _, _)
scopeWalk(q, s, matchTags, i) ==
  IF i = 0 THEN 0
  ELSE LET n == q.nodes[q.oe[i]]
           tag == n.Data
           html == n.Namespace = ""
       IN IF html /\ tag \in matchTags THEN i
          ELSE IF html /\ s = "listItemScope" /\ tag \in {"ol", "ul"} THEN 0
          ELSE IF html /\ s = "buttonScope" /\ tag = "button" THEN 0
          ELSE IF html /\ s = "tableScope" /\ tag \in {"html", "table"} THEN 0
          ELSE IF html /\ s = "selectScope" /\ tag \notin {"optgroup", "option"} THEN 0
          ELSE IF html /\ s \notin {"defaultScope", "listItemScope", "buttonScope",
                                    "tableScope", "selectScope"} THEN Unreachable
          ELSE IF s \in {"defaultScope", "listItemScope", "buttonScope"}
                  /\ tag \in defaultScopeStopTags(n.Namespace) THEN 0
          ELSE scopeWalk(q, s, matchTags, i - 1)

indexOfElementInScope(q, s, matchTags) == scopeWalk(q, s, matchTags, Len(q.oe))

popUntilKeepsMatch(q, s, matchTags) ==
  LET i == indexOfElementInScope(q, s, matchTags) IN
  IF i > 0 THEN [p |-> [q EXCEPT !.oe = SubSeq(@, 1, i)], ok |-> TRUE]
  ELSE [p |-> q, ok |-> FALSE]

\* popUntil: the parser afterwards (p), and whether there was a match (ok).
popUntil(q, s, matchTags) ==
  LET i == indexOfElementInScope(q, s, matchTags) IN
  IF ~Ok(q) THEN [p |-> q, ok |-> FALSE]
  ELSE IF i = Unreachable THEN [p |-> Panic(q, "unreachable"), ok |-> FALSE]
  ELSE IF i # 0 THEN [p |-> [q EXCEPT !.oe = SubSeq(@, 1, i - 1)], ok |-> TRUE]
  ELSE [p |-> q, ok |-> FALSE]

elementInScopeAnywhere(q, s, matchTags) ==
  \E i \in 1..Len(q.oe) : q.nodes[q.oe[i]].Data \in matchTags

elementInScope(q, s, matchTags) == indexOfElementInScope(q, s, matchTags) > 0

\* A call of elementInScope or indexOfElementInScope that panics.
scopePanics(q, s, matchTags) == indexOfElementInScope(q, s, matchTags) = Unreachable

contextTagsOfTable(s) == {"html", "table"}

contextTags(s) ==
  CASE s = "tableScope" -> {"html", "table"}
    [] s = "tableRowScope" -> {"html", "tr"}
    [] s = "tableBodyScope" -> {"html", "tbody", "tfoot", "thead"}
    [] OTHER -> {}

clearStackToContext(q, s) ==
  IF ~Ok(q) THEN q
  ELSE IF s \notin {"tableScope", "tableRowScope", "tableBodyScope"}
  THEN (IF Len(q.oe) > 0 THEN Panic(q, "unreachable") ELSE q)
  ELSE LET hits == {i \in 1..Len(q.oe) : q.nodes[q.oe[i]].Data \in contextTags(s)} IN
       IF hits = {} THEN q ELSE [q EXCEPT !.oe = SubSeq(@, 1, Max(hits))]

impliedEndTags == {"dd", "dt", "li", "option", "optgroup", "p", "rp", "rt"}

generateImpliedEndTags(q, exceptions) ==
  IF ~Ok(q) THEN q
  ELSE LET keep == {i \in 1..Len(q.oe) :
                      ~(/\ q.nodes[q.oe[i]].Type = "Element"
                        /\ q.nodes[q.oe[i]].Data \in impliedEndTags
                        /\ q.nodes[q.oe[i]].Data \notin exceptions)}
       IN [q EXCEPT !.oe = SubSeq(@, 1, IF keep = {} THEN 0 ELSE Max(keep))]

(* ------------------------------------------------------------------ *)
(* Tree mutation helpers.                                              *)
(* ------------------------------------------------------------------ *)

insertChildOnly(q, parent, i, n) ==
  [q EXCEPT !.nodes[parent].Child = InsertAt(@, i + 1, n)]

\* fosterParent's insertion of n into parent.Child at index i (from 0).
insertChild(q, parent, i, n) ==
  [q EXCEPT !.nodes[parent].Child = InsertAt(@, i + 1, n),
            !.nodes[n].Parent = parent]

fosterParentAsChild(q0, n) ==
  NodeAdd([q0 EXCEPT !.fosterParenting = FALSE], top(q0), n)

\* fosterParent: n is an allocated node.  gi is Go's variable i (from 0, -1
\* after a search of the stack that found no table): the loop over the
\* parent's children leaves it at the table's position, at the last position
\* when the table is not among them, and untouched when there are none.
fosterParent(q0, n) ==
  IF ~Ok(q0) THEN q0
  ELSE
  LET q == [q0 EXCEPT !.fosterParenting = FALSE]
      tables == {i \in 1..Len(q.oe) : q.nodes[q.oe[i]].Data = "table"}
      place(parent, gi) ==
        LET kids == q.nodes[parent].Child IN
        IF gi > 0 /\ gi > Len(kids) THEN Panic(q, "runtime error: index out of range")
        ELSE IF gi > 0 /\ q.nodes[kids[gi]].Type = "Text" /\ q.nodes[n].Type = "Text"
        THEN [q EXCEPT !.nodes[kids[gi]].Text = @ \o q.nodes[n].Text]
        ELSE IF gi = Len(kids) THEN NodeAdd(q, parent, n)
        ELSE IF gi < 0 \/ gi > Len(kids)
        THEN Panic(q, "runtime error: slice bounds out of range")
        ELSE insertChild(q, parent, gi, n)
      before(ti, table, parent) ==
        LET kids == q.nodes[parent].Child
            k == IF table = Nil THEN 0 ELSE FirstIndex(kids, table)
        IN place(parent, IF Len(kids) = 0 THEN ti - 1
                         ELSE IF k # 0 THEN k - 1
                         ELSE Len(kids) - 1)
      under(ti, table, parent0) ==
        IF parent0 = Nil /\ ti - 1 < 1 THEN Panic(q, "runtime error: index out of range")
        ELSE before(ti, table, IF parent0 = Nil THEN q.oe[ti - 1] ELSE parent0)
      from(ti, table) ==
        IF table = Nil /\ Len(q.oe) = 0 THEN Panic(q, "runtime error: index out of range")
        ELSE under(ti, table, IF table = Nil THEN q.oe[1] ELSE q.nodes[table].Parent)
      at(ti) == from(ti, IF ti = 0 THEN Nil ELSE q.oe[ti])
  IN at(IF tables = {} THEN 0 ELSE Max(tables))

addChildUnattached(q, node) ==
  IF ~Ok(q) THEN q
  ELSE LET q1 == Alloc(q, node) IN
       IF node.Type = "Element" THEN [q1 EXCEPT !.oe = Append(@, NewId(q))] ELSE q1

\* addChild: the node is allocated, added to the current node (or foster
\* parented) and, if it is an element, pushed on the stack of open elements.
addChild(q, node) ==
  IF ~Ok(q) THEN q
  ELSE
  LET n == NewId(q)
      q1 == Alloc(q, node)
      push(q2) == IF ~Ok(q2) THEN q2
                  ELSE IF node.Type = "Element" THEN [q2 EXCEPT !.oe = Append(@, n)]
                  ELSE q2
  IN push(IF q1.fosterParenting THEN fosterParent(q1, n) ELSE NodeAdd(q1, top(q1), n))

addTextAlwaysNew(q, text) == addChild(q, NewText(text))

addText(q, text) ==
  IF ~Ok(q) THEN q
  ELSE
  LET kids == q.nodes[top(q)].Child IN
  IF Len(kids) > 0 /\ q.nodes[Last(kids)].Type = "Text"
  THEN [q EXCEPT !.nodes[Last(kids)].Text = @ \o text]
  ELSE addChild(q, NewText(text))

addElement(q, tag, attr) == addChild(q, NewNode("Element", tag, attr))

addComment(q, data) == addChild(q, NewNode("Comment", data, <<>>))

addFormattingElement(q, tag, attr) ==
  LET q1 == addElement(q, tag, attr) IN
  IF ~Ok(q1) THEN q1 ELSE [q1 EXCEPT !.afe = Append(@, top(q1))]

isMarkerNever(q, n) == FALSE

isMarker(q, n) == q.nodes[n].Type = "scopeMarker"

\* clearActiveFormattingElements: pops up to and including the last marker.
clearActiveFormattingElements(q) ==
  IF ~Ok(q) THEN q
  ELSE IF Len(q.afe) = 0 THEN Panic(q, "runtime error: index out of range")
  ELSE LET marks == {i \in 1..Len(q.afe) : isMarker(q, q.afe[i])} IN
       [q EXCEPT !.afe = SubSeq(@, 1, IF marks = {} THEN 0 ELSE Max(marks) - 1)]

\* The reconstruction of the single entry i.
reconstructOne(q, i) ==
  IF ~Ok(q) THEN q
  ELSE (LET put(c, q1) == IF Ok(q1) THEN [q1 EXCEPT !.afe[i] = c] ELSE q1
        IN put(NewId(q), addChild(q, clone(q.nodes[q.afe[i]]))))

\* The second loop of reconstructActiveFormattingElements, from entry i on.
RECURSIVE reconstructFrom(_, _)
reconstructFrom(q, i) ==
  IF ~Ok(q) THEN q
  ELSE
  LET c == NewId(q)
      q1 == addChild(q, clone(q.nodes[q.afe[i]]))
      q2 == IF Ok(q1) THEN [q1 EXCEPT !.afe[i] = c] ELSE q1
  IN IF i = Len(q.afe) THEN q2 ELSE reconstructFrom(q2, i + 1)

reconstructNothing(q) == q

reconstructActiveFormattingElements(q) ==
  IF ~Ok(q) THEN q
  ELSE IF stackTop(q.afe) = Nil THEN q
  ELSE IF isMarker(q, Last(q.afe)) \/ index(q.oe, Last(q.afe)) # 0 THEN q
  ELSE LET stops == {i \in 1..Len(q.afe) :
                       isMarker(q, q.afe[i]) \/ index(q.oe, q.afe[i]) # 0}
       IN reconstructFrom(q, IF stops = {} THEN 1 ELSE Max(stops) + 1)

acknowledgeSelfClosingTag(q) == [q EXCEPT !.hasSelfClosingToken = FALSE]

setOriginalIM(q) ==
  IF ~Ok(q) THEN q
  ELSE IF q.originalIM # "nil"
  THEN Panic(q, "html: bad parser state: originalIM was set twice")
  ELSE [q EXCEPT !.originalIM = q.im]

resetMode(data) ==
  CASE data = "select" -> "inSelectIM"
    [] data \in {"td", "th"} -> "inCellIM"
    [] data = "tr" -> "inRowIM"
    [] data \in {"tbody", "thead", "tfoot"} -> "inTableBodyIM"
    [] data = "caption" -> "inCaptionIM"
    [] data = "colgroup" -> "inColumnGroupIM"
    [] data = "table" -> "inTableIM"
    [] data = "head" -> "inBodyIM"
    [] data = "body" -> "inBodyIM"
    [] data = "frameset" -> "inFramesetIM"
    [] data = "html" -> "beforeHeadIM"
    [] OTHER -> "nil"

RECURSIVE resetWalk(_, _)
resetWalk(q, i) ==
  IF i = 0 THEN [q EXCEPT !.im = "inBodyIM"]
  ELSE LET n == IF i = 1 /\ q.context # Nil THEN q.context ELSE q.oe[i] IN
       IF resetMode(q.nodes[n].Data) # "nil"
       THEN [q EXCEPT !.im = resetMode(q.nodes[n].Data)]
       ELSE resetWalk(q, i - 1)

resetInsertionMode(q) == IF ~Ok(q) THEN q ELSE resetWalk(q, Len(q.oe))


(* ------------------------------------------------------------------ *)
(* Text: a string is the sequence of its characters.                   *)
(* ------------------------------------------------------------------ *)

\* const whitespace = " \t\r\n\f"
whitespace == {"SP", "TAB", "CR", "LF", "FF"}

\* strings.TrimLeft(s, whitespace)
RECURSIVE TrimLeft(_)
TrimLeft(s) ==
  IF Len(s) > 0 /\ s[1] \in whitespace THEN TrimLeft(Tail(s)) ELSE s

\* strings.Trim(s, whitespace)
RECURSIVE TrimRight(_)
TrimRight(s) ==
  IF Len(s) > 0 /\ Last(s) \in whitespace THEN TrimRight(Front(s)) ELSE s

Trim(s) == TrimRight(TrimLeft(s))

\* strings.Replace(s, "\x00", "", -1)
StripNul(s) == SelectSeq(s, LAMBDA c : c # "NUL")

\* strings.Map keeping ' ', '\t', '\n', '\f', '\r' and dropping the rest
OnlyWhitespace(s) == SelectSeq(s, LAMBDA c : c \in whitespace)

\* The newline a pre, listing or textarea block ignores at its start.
DropNewline(d) ==
  LET d1 == IF Len(d) > 0 /\ d[1] = "CR" THEN Tail(d) ELSE d
  IN IF Len(d1) > 0 /\ d1[1] = "LF" THEN Tail(d1) ELSE d1

\* strings.ToLower on the values and tag names of the model
ToLower(v) ==
  CASE v = "HIDDEN" -> "hidden"
    [] v = "foreignObject" -> "foreignobject"
    [] v = "clipPath" -> "clippath"
    [] OTHER -> v

\* strings.EqualFold
EqualFold(a, b) == ToLower(a) = ToLower(b)

(* ------------------------------------------------------------------ *)
(* Tokens and handler results.                                         *)
(* ------------------------------------------------------------------ *)

Tok(type, data, attr) == [Type |-> type, Data |-> data, Attr |-> attr, Text |-> <<>>]
TextTok(text) == [Type |-> "Text", Data |-> "", Attr |-> <<>>, Text |-> text]
A(k, v) == [Namespace |-> "", Key |-> k, Val |-> v]

NoCall == [Type |-> "none", Data |-> ""]

\* A handler returns: the parser, and whether the token was consumed.
Ret(q, b) == [p |-> q, consumed |-> b, call |-> NoCall, post |-> <<>>, to |-> ""]

\* A handler returns what the handler h returns (return h(p)).
Delegate(q, h) == [p |-> q, consumed |-> FALSE, call |-> NoCall, post |-> <<>>, to |-> h]

\* A handler calls parseImpliedToken(type, data, nil) and returns false:
\* the call is made by the action that ran the handler.
Call(q, type, data) ==
  [p |-> q, consumed |-> FALSE, call |-> [Type |-> type, Data |-> data], post |-> <<>>,
   to |-> ""]

\* What a handler does between the return of parseImpliedToken and its own.
CallThen(q, type, data, post) ==
  [p |-> q, consumed |-> FALSE, call |-> [Type |-> type, Data |-> data], post |-> post,
   to |-> ""]

\* The statements that follow a call of another handler or of
\* parseImpliedToken: deferred statements, and afterHeadIM's framesetOK.
ApplyPost(q, op) ==
  CASE op = "oe.pop" -> IF ~Ok(q) THEN q
                        ELSE IF Len(q.oe) = 0 THEN Panic(q, "runtime error: index out of range")
                        ELSE [q EXCEPT !.oe = SubSeq(@, 1, Len(@) - 1)]
    [] op = "fosterParenting = false" -> [q EXCEPT !.fosterParenting = FALSE]
    [] op = "framesetOK = true" -> IF ~Ok(q) THEN q ELSE [q EXCEPT !.framesetOK = TRUE]
    [] OTHER -> q

\* A deferred statement of a handler that returns r: it runs when the handler
\* returns, which is after the return of a parseImpliedToken still to be made.
Deferred(r, op) ==
  IF r.call = NoCall /\ r.to = "" THEN [r EXCEPT !.p = ApplyPost(@, op)]
  ELSE [r EXCEPT !.post = Append(@, op)]

(* ------------------------------------------------------------------ *)
(* Element classification.                                             *)
(* ------------------------------------------------------------------ *)

isSpecialElementMap ==
  {"address", "applet", "area", "article", "aside", "base", "basefont", "bgsound",
   "blockquote", "body", "br", "button", "caption", "center", "col", "colgroup",
   "command", "dd", "details", "dir", "div", "dl", "dt", "embed", "fieldset",
   "figcaption", "figure", "footer", "form", "frame", "frameset", "h1", "h2", "h3",
   "h4", "h5", "h6", "head", "header", "hgroup", "hr", "html", "iframe", "img",
   "input", "isindex", "li", "link", "listing", "marquee", "menu", "meta", "nav",
   "noembed", "noframes", "noscript", "object", "ol", "p", "param", "plaintext",
   "pre", "script", "section", "select", "style", "summary", "table", "tbody", "td",
   "textarea", "tfoot", "th", "thead", "title", "tr", "ul", "wbr", "xmp"}

isSpecialElement(n) ==
  CASE n.Namespace = "" -> n.Data \in isSpecialElementMap
    [] n.Namespace = "svg" -> n.Data = "foreignObject"
    [] OTHER -> FALSE

formattingTags ==
  {"a", "b", "big", "code", "em", "font", "i", "nobr", "s", "small", "strike",
   "strong", "tt", "u"}

(* ------------------------------------------------------------------ *)
(* copyAttributes and the end tags of the body.                        *)
(* ------------------------------------------------------------------ *)

\* The second loop of copyAttributes: attr is the set of keys in the map.
RECURSIVE copyLoop(_, _, _)
copyLoop(dstAttr, srcAttr, attr) ==
  IF Len(srcAttr) = 0 THEN dstAttr
  ELSE LET a == Head(srcAttr) IN
       IF a.Key \notin attr
       THEN copyLoop(Append(dstAttr, a), Tail(srcAttr), attr \cup {a.Key})
       ELSE copyLoop(dstAttr, Tail(srcAttr), attr)

copyAttributesAll(q, dst, src) ==
  IF ~Ok(q) THEN q ELSE [q EXCEPT !.nodes[dst].Attr = @ \o src.Attr]

copyAttributes(q, dst, src) ==
  IF ~Ok(q) \/ Len(src.Attr) = 0 THEN q
  ELSE [q EXCEPT !.nodes[dst].Attr =
          copyLoop(@, src.Attr, {@[i].Key : i \in 1..Len(@)})]

RECURSIVE endTagOtherWalk(_, _, _)
endTagOtherWalk(q, tag, i) ==
  IF i = 0 THEN q
  ELSE IF q.nodes[q.oe[i]].Data = tag THEN [q EXCEPT !.oe = SubSeq(@, 1, i - 1)]
  ELSE IF isSpecialElement(q.nodes[q.oe[i]]) THEN q
  ELSE endTagOtherWalk(q, tag, i - 1)

inBodyEndTagOther(q, tag) == IF ~Ok(q) THEN q ELSE endTagOtherWalk(q, tag, Len(q.oe))

(* ------------------------------------------------------------------ *)
(* The adoption agency.                                                *)
(* ------------------------------------------------------------------ *)

\* A node that stays where it is.
DetachNever(q, n) == q

\* Detach n from its parent, if it has one.
Detach(q, n) ==
  IF ~Ok(q) THEN q
  ELSE IF q.nodes[n].Parent # Nil THEN NodeRemove(q, q.nodes[n].Parent, n) ELSE q

\* The inner loop left out.
agencyInnerNone(q, fe, fb, j, x0, lastNode, bookmark) ==
  [p |-> q, lastNode |-> lastNode, bookmark |-> bookmark]

\* Step 9, the inner loop from iteration j on: x is the position in the stack
\* of open elements, lastNode and bookmark are the loop's variables.
RECURSIVE agencyInner(_, _, _, _, _, _, _)
agencyInner(q, fe, fb, j, x0, lastNode, bookmark) ==
  IF ~Ok(q) \/ j = 3 THEN [p |-> q, lastNode |-> lastNode, bookmark |-> bookmark]
  ELSE
  LET x == x0 - 1 IN
  IF x < 1 \/ x > Len(q.oe)
  THEN [p |-> Panic(q, "runtime error: index out of range"),
        lastNode |-> lastNode, bookmark |-> bookmark]
  ELSE
  LET node == q.oe[x] IN
  IF index(q.afe, node) = 0
  THEN agencyInner([q EXCEPT !.oe = remove(@, node)], fe, fb, j + 1, x, lastNode, bookmark)
  ELSE IF node = fe THEN [p |-> q, lastNode |-> lastNode, bookmark |-> bookmark]
  ELSE
  LET c == NewId(q)
      relink(q3) ==
        agencyInner(NodeAdd(Detach(q3, lastNode), c, lastNode), fe, fb, j + 1, x, c,
                    IF lastNode = fb THEN index(q3.afe, c) + 1 ELSE bookmark)
      inStack(q2) == relink([q2 EXCEPT !.oe[index(q2.oe, node)] = c])
      inList(q1) == inStack([q1 EXCEPT !.afe[index(q1.afe, node)] = c])
  IN inList(Alloc(q, clone(q.nodes[node])))

\* The first entry with the tag instead of the last.
findFirstFormattingElement(q, tag) ==
  LET marks == {j \in 1..Len(q.afe) : isMarker(q, q.afe[j])}
      lo == IF marks = {} THEN 0 ELSE Max(marks)
      hits == {j \in (lo + 1)..Len(q.afe) : q.nodes[q.afe[j]].Data = tag}
  IN IF hits = {} THEN Nil ELSE q.afe[Min(hits)]

\* The formatting element: the last entry after the last marker of the list
\* of active formatting elements whose tag is tag; Nil if there is none.
findFormattingElement(q, tag) ==
  LET marks == {j \in 1..Len(q.afe) : isMarker(q, q.afe[j])}
      lo == IF marks = {} THEN 0 ELSE Max(marks)
      hits == {j \in (lo + 1)..Len(q.afe) : q.nodes[q.afe[j]].Data = tag}
  IN IF hits = {} THEN Nil ELSE q.afe[Max(hits)]

tableTags == {"table", "tbody", "tfoot", "thead", "tr"}

\* inBodyEndTagFormatting from iteration i of the outer loop on.
RECURSIVE agencyOuter(_, _, _)
agencyOuter(q, tag, i) ==
  IF ~Ok(q) \/ i = 8 THEN q
  ELSE
  LET step(fe) ==
        IF fe = Nil THEN inBodyEndTagOther(q, tag)
        ELSE
        LET feIndex == index(q.oe, fe) IN
        IF feIndex = 0 THEN [q EXCEPT !.afe = remove(@, fe)]
        ELSE IF ~elementInScope(q, "defaultScope", {tag}) THEN q
        ELSE
        LET specials == {k \in feIndex..Len(q.oe) : isSpecialElement(q.nodes[q.oe[k]])} IN
        IF specials = {}
        THEN [q EXCEPT !.oe = SubSeq(@, 1, feIndex - 1), !.afe = remove(@, fe)]
        ELSE IF feIndex - 1 < 1 THEN Panic(q, "runtime error: index out of range")
        ELSE
        LET again(q6) == agencyOuter(q6, tag, i + 1)
            move(q5, fb, c, bookmark) ==
              IF ~Ok(q5) THEN q5
              ELSE
              LET oldLoc == index(q5.afe, fe)
                  bm == IF oldLoc # 0 /\ oldLoc < bookmark THEN bookmark - 1 ELSE bookmark
                  afe1 == remove(q5.afe, fe)
                  oe1 == remove(q5.oe, fe)
              IN IF bm < 1 \/ bm > Len(afe1) + 1
                 THEN Panic(q5, "runtime error: slice bounds out of range")
                 ELSE again([q5 EXCEPT !.afe = insert(afe1, bm, c),
                                       !.oe = insert(oe1, index(oe1, fb) + 1, c)])
            adopt(q3, fb, c, bookmark) ==
              move(NodeAdd(reparentChildren(q3, c, fb), fb, c), fb, c, bookmark)
            cloned(q2, fb, bookmark) ==
              adopt(IF ~Ok(q2) THEN q2 ELSE Alloc(q2, clone(q2.nodes[fe])),
                    fb, NewId(q2), bookmark)
            placed(q1, fb, commonAncestor, lastNode, bookmark) ==
              cloned(IF ~Ok(q1) THEN q1
                     ELSE IF q1.nodes[commonAncestor].Data \in tableTags
                     THEN fosterParent(q1, lastNode)
                     ELSE NodeAdd(q1, commonAncestor, lastNode),
                     fb, bookmark)
            inner(in, fb, commonAncestor) ==
              placed(Detach(in.p, in.lastNode), fb, commonAncestor, in.lastNode, in.bookmark)
            furthest(fb) ==
              inner(agencyInner(q, fe, fb, 0, index(q.oe, fb), fb, index(q.afe, fe)),
                    fb, q.oe[feIndex - 1])
        IN furthest(q.oe[Min(specials)])
  IN step(findFormattingElement(q, tag))

inBodyEndTagFormatting(q, tag) == agencyOuter(q, tag, 0)


(* ------------------------------------------------------------------ *)
(* Foreign attributes (foreign.go).                                    *)
(* ------------------------------------------------------------------ *)

mathMLAttributeAdjustments(k) == IF k = "definitionurl" THEN "definitionURL" ELSE k

svgAttributeAdjustments(k) ==
  CASE k = "viewbox" -> "viewBox"
    [] k = "attributename" -> "attributeName"
    [] OTHER -> k

\* adjustAttributeNames with the MathML (ns = "math") or SVG table
adjustAttributeNames(attr, ns) ==
  [i \in 1..Len(attr) |->
     [attr[i] EXCEPT !.Key = IF ns = "math" THEN mathMLAttributeAdjustments(@)
                             ELSE svgAttributeAdjustments(@)]]

\* adjustForeignAttributes: a prefixed key is split into namespace and key
adjustForeignAttributes(attr) ==
  [i \in 1..Len(attr) |->
     IF attr[i].Key = "xlink:href" THEN [attr[i] EXCEPT !.Namespace = "xlink", !.Key = "href"]
     ELSE IF attr[i].Key = "xml:lang" THEN [attr[i] EXCEPT !.Namespace = "xml", !.Key = "lang"]
     ELSE attr[i]]

\* The attributes of the current token as a math or svg start tag leaves them.
adjustTokenAttributes(q, ns) ==
  [q EXCEPT !.tok.Attr = adjustForeignAttributes(adjustAttributeNames(@, ns))]

(* ------------------------------------------------------------------ *)
(* Insertion modes: in head, in body.                                  *)
(* ------------------------------------------------------------------ *)

\* The Text case of inHeadIM, afterHeadIM and inColumnGroupIM: the leading
\* whitespace goes to the current node; done says that nothing is left.
splitWhitespace(q) ==
  LET s == TrimLeft(q.tok.Text) IN
  IF Len(s) < Len(q.tok.Text)
  THEN LET q1 == addText(q, SubSeq(q.tok.Text, 1, Len(q.tok.Text) - Len(s))) IN
       IF Len(s) = 0 THEN [p |-> q1, done |-> TRUE]
       ELSE [p |-> [q1 EXCEPT !.tok.Text = s], done |-> FALSE]
  ELSE [p |-> q, done |-> FALSE]

\* Text mode entered without saving the mode.
toTextUnsaved(q) == [q EXCEPT !.im = "textIM"]

\* p.setOriginalIM(); p.im = textIM
toText(q) == LET q1 == setOriginalIM(q) IN [q1 EXCEPT !.im = "textIM"]

\* p.addElement(p.tok.Data, p.tok.Attr)
addTokElement(q) == addElement(q, q.tok.Data, q.tok.Attr)

\* p.addElement(p.tok.Data, p.tok.Attr); p.oe.pop(); p.acknowledgeSelfClosingTag()
addVoidElement(q) == acknowledgeSelfClosingTag(oePop(addTokElement(q)))

inHeadIM(q) ==
  LET tag == q.tok.Data IN
  CASE q.tok.Type = "Text" ->
         LET r == splitWhitespace(q) IN
         IF r.done THEN Ret(r.p, TRUE) ELSE Call(r.p, "EndTag", "head")
    [] q.tok.Type = "StartTag" ->
         (CASE tag = "html" -> Delegate(q, "inBodyIM")
            [] tag \in {"base", "basefont", "bgsound", "command", "link", "meta"} ->
                 Ret(addVoidElement(q), TRUE)
            [] tag \in {"script", "title", "noscript", "noframes", "style"} ->
                 Ret(toText(addTokElement(q)), TRUE)
            [] tag = "head" -> Ret(q, TRUE)
            [] OTHER -> Call(q, "EndTag", "head"))
    [] q.tok.Type = "EndTag" ->
         (CASE tag = "head" ->
                 IF Len(q.oe) = 0 THEN Ret(Panic(q, "runtime error: index out of range"), TRUE)
                 ELSE IF q.nodes[Last(q.oe)].Data # "head"
                 THEN Ret(Panic(oePop(q), "html: bad parser state: <head> element not found, in the in-head insertion mode"), TRUE)
                 ELSE Ret([oePop(q) EXCEPT !.im = "afterHeadIM"], TRUE)
            [] tag \in {"body", "html", "br"} -> Call(q, "EndTag", "head")
            [] OTHER -> Ret(q, TRUE))
    [] q.tok.Type = "Comment" -> Ret(addComment(q, tag), TRUE)
    [] q.tok.Type = "Doctype" -> Ret(q, TRUE)
    [] OTHER -> Call(q, "EndTag", "head")

\* The loop of the li, dd and dt start tags: the stack is cut below the
\* nearest element with one of the tags, unless a special element other than
\* address, div and p comes first.
RECURSIVE closeItem(_, _, _)
closeItem(q, tags, i) ==
  IF i = 0 THEN q
  ELSE LET node == q.nodes[q.oe[i]] IN
       IF node.Data \in tags THEN [q EXCEPT !.oe = SubSeq(@, 1, i - 1)]
       ELSE IF node.Data \in {"address", "div", "p"} THEN closeItem(q, tags, i - 1)
       ELSE IF ~isSpecialElement(node) THEN closeItem(q, tags, i - 1)
       ELSE q

closePNever(q) == q

closeP(q) == popUntil(q, "buttonScope", {"p"}).p

noFramesetOK(q) == [q EXCEPT !.framesetOK = FALSE]

\* The a start tag: an a element after the last marker of the list of active
\* formatting elements is closed by the adoption agency and removed.
closeActiveA(q) ==
  LET marks == {j \in 1..Len(q.afe) : isMarker(q, q.afe[j])}
      lo == IF marks = {} THEN 0 ELSE Max(marks)
      hits == {j \in (lo + 1)..Len(q.afe) :
                 q.nodes[q.afe[j]].Type = "Element" /\ q.nodes[q.afe[j]].Data = "a"}
  IN IF hits = {} THEN q
     ELSE LET n == q.afe[Max(hits)]
              drop(q1) == IF ~Ok(q1) THEN q1
                          ELSE [q1 EXCEPT !.oe = remove(@, n), !.afe = remove(@, n)]
          IN drop(inBodyEndTagFormatting(q, "a"))

\* The attributes an isindex start tag hands to its input element.
isindexAttr(attr) ==
  <<A("name", "isindex")>> \o
  SelectSeq(attr, LAMBDA a : a.Key \notin {"action", "name", "prompt"})

\* The value of the last attribute of attr with key k, dflt if there is none.
lastVal(attr, k, dflt) ==
  LET hits == {i \in 1..Len(attr) : attr[i].Key = k} IN
  IF hits = {} THEN dflt ELSE attr[Max(hits)].Val

\* The default prompt of isindex, as the characters of a text.
defaultPrompt == <<"x", "SP">>
promptText(v) == IF v = "" THEN <<>> ELSE <<v>>

\* The form of isindex stays the form of the parser.
isindexKeepsForm(q) ==
  LET q1 == addElement(closeP(acknowledgeSelfClosingTag(q)), "form", <<>>)
  IN IF ~Ok(q1) THEN q1 ELSE [oePop(q1) EXCEPT !.form = top(q1)]

isindex(q) ==
  LET action == lastVal(q.tok.Attr, "action", "")
      hasPrompt == \E i \in 1..Len(q.tok.Attr) : q.tok.Attr[i].Key = "prompt"
      prompt == IF hasPrompt THEN promptText(lastVal(q.tok.Attr, "prompt", ""))
                ELSE defaultPrompt
      attr == isindexAttr(q.tok.Attr)
      q1 == addElement(closeP(acknowledgeSelfClosingTag(q)), "form", <<>>)
      q2 == IF ~Ok(q1) THEN q1 ELSE [q1 EXCEPT !.form = top(q1)]
      q3 == IF ~Ok(q2) \/ action = "" THEN q2
            ELSE [q2 EXCEPT !.nodes[q2.form].Attr = <<A("action", action)>>]
      q4 == oePop(addElement(q3, "hr", <<>>))
      q5 == addText(addElement(q4, "label", <<>>), prompt)
      q6 == oePop(oePop(addElement(q5, "input", attr)))
      q7 == oePop(oePop(addElement(q6, "hr", <<>>)))
  IN IF ~Ok(q7) THEN q7 ELSE [q7 EXCEPT !.form = Nil]

hiddenInput(attr) ==
  \E i \in 1..Len(attr) : attr[i].Key = "type" /\ ToLower(attr[i].Val) = "hidden"

inBodyStartTag(q) ==
  LET tag == q.tok.Data IN
  CASE tag = "html" ->
         IF Len(q.oe) = 0 THEN Ret(Panic(q, "runtime error: index out of range"), TRUE)
         ELSE Ret(copyAttributes(q, q.oe[1], q.tok), TRUE)
    [] tag \in {"base", "basefont", "bgsound", "command", "link", "meta", "noframes",
                "script", "style", "title"} -> Delegate(q, "inHeadIM")
    [] tag = "body" ->
         IF Len(q.oe) >= 2 /\ q.nodes[q.oe[2]].Type = "Element" /\ q.nodes[q.oe[2]].Data = "body"
         THEN Ret(copyAttributes(noFramesetOK(q), q.oe[2], q.tok), TRUE)
         ELSE Ret(q, TRUE)
    [] tag = "frameset" ->
         IF ~q.framesetOK \/ Len(q.oe) < 2 \/ q.nodes[q.oe[2]].Data # "body"
         THEN Ret(q, TRUE)
         ELSE LET q1 == Detach(q, q.oe[2])
                  q2 == IF ~Ok(q1) THEN q1 ELSE [q1 EXCEPT !.oe = SubSeq(@, 1, 1)]
                  q3 == addTokElement(q2)
              IN Ret([q3 EXCEPT !.im = "inFramesetIM"], TRUE)
    [] tag \in {"address", "article", "aside", "blockquote", "center", "details", "dir",
                "div", "dl", "fieldset", "figcaption", "figure", "footer", "header",
                "hgroup", "menu", "nav", "ol", "p", "section", "summary", "ul"} ->
         Ret(addTokElement(closeP(q)), TRUE)
    [] tag \in {"h1", "h2", "h3", "h4", "h5", "h6"} ->
         LET q1 == closeP(q)
             q2 == IF q1.nodes[top(q1)].Data \in {"h1", "h2", "h3", "h4", "h5", "h6"}
                   THEN oePop(q1) ELSE q1
         IN Ret(addTokElement(q2), TRUE)
    [] tag \in {"pre", "listing"} -> Ret(noFramesetOK(addTokElement(closeP(q))), TRUE)
    [] tag = "form" ->
         IF q.form = Nil
         THEN LET q1 == addTokElement(closeP(q)) IN
              Ret(IF Ok(q1) THEN [q1 EXCEPT !.form = top(q1)] ELSE q1, TRUE)
         ELSE Ret(q, TRUE)
    [] tag = "li" ->
         Ret(addTokElement(closeP(closeItem(noFramesetOK(q), {"li"}, Len(q.oe)))), TRUE)
    [] tag \in {"dd", "dt"} ->
         Ret(addTokElement(closeP(closeItem(noFramesetOK(q), {"dd", "dt"}, Len(q.oe)))), TRUE)
    [] tag = "plaintext" -> Ret(addTokElement(closeP(q)), TRUE)
    [] tag = "button" ->
         Ret(noFramesetOK(addTokElement(reconstructActiveFormattingElements(
               popUntil(q, "defaultScope", {"button"}).p))), TRUE)
    [] tag = "a" ->
         Ret(addFormattingElement(reconstructActiveFormattingElements(closeActiveA(q)),
                                  tag, q.tok.Attr), TRUE)
    [] tag \in {"b", "big", "code", "em", "font", "i", "s", "small", "strike", "strong",
                "tt", "u"} ->
         Ret(addFormattingElement(reconstructActiveFormattingElements(q), tag, q.tok.Attr), TRUE)
    [] tag = "nobr" ->
         LET q1 == reconstructActiveFormattingElements(q)
             q2 == IF Ok(q1) /\ elementInScope(q1, "defaultScope", {"nobr"})
                   THEN reconstructActiveFormattingElements(inBodyEndTagFormatting(q1, "nobr"))
                   ELSE q1
         IN Ret(addFormattingElement(q2, tag, q.tok.Attr), TRUE)
    [] tag \in {"applet", "marquee", "object"} ->
         LET q1 == addTokElement(reconstructActiveFormattingElements(q)) IN
         Ret(IF Ok(q1) THEN noFramesetOK([q1 EXCEPT !.afe = Append(@, scopeMarker)]) ELSE q1, TRUE)
    [] tag = "table" ->
         LET q1 == addTokElement(IF ~q.quirks THEN closeP(q) ELSE q) IN
         Ret([noFramesetOK(q1) EXCEPT !.im = "inTableIM"], TRUE)
    [] tag \in {"area", "br", "embed", "img", "input", "keygen", "wbr"} ->
         LET q1 == addVoidElement(reconstructActiveFormattingElements(q)) IN
         IF tag = "input" /\ hiddenInput(q.tok.Attr) THEN Ret(q1, TRUE)
         ELSE Ret(noFramesetOK(q1), TRUE)
    [] tag \in {"param", "source", "track"} -> Ret(addVoidElement(q), TRUE)
    [] tag = "hr" -> Ret(noFramesetOK(addVoidElement(closeP(q))), TRUE)
    [] tag = "image" -> Ret([q EXCEPT !.tok.Data = "img"], FALSE)
    [] tag = "isindex" -> IF q.form # Nil THEN Ret(q, TRUE) ELSE Ret(isindex(q), TRUE)
    [] tag = "textarea" ->
         LET q1 == setOriginalIM(addTokElement(q)) IN
         Ret([noFramesetOK(q1) EXCEPT !.im = "textIM"], TRUE)
    [] tag = "xmp" ->
         Ret(toText(addTokElement(noFramesetOK(
               reconstructActiveFormattingElements(closeP(q))))), TRUE)
    [] tag = "iframe" -> Ret(toText(addTokElement(noFramesetOK(q))), TRUE)
    [] tag \in {"noembed", "noscript"} -> Ret(toText(addTokElement(q)), TRUE)
    [] tag = "select" ->
         LET q1 == addTokElement(reconstructActiveFormattingElements(q)) IN
         Ret([noFramesetOK(q1) EXCEPT !.im = "inSelectIM"], TRUE)
    [] tag \in {"optgroup", "option"} ->
         LET q1 == IF q.nodes[top(q)].Data = "option" THEN oePop(q) ELSE q IN
         Ret(addTokElement(reconstructActiveFormattingElements(q1)), TRUE)
    [] tag \in {"rp", "rt"} ->
         LET q1 == IF elementInScope(q, "defaultScope", {"ruby"})
                   THEN generateImpliedEndTags(q, {}) ELSE q
         IN Ret(addTokElement(q1), TRUE)
    [] tag \in {"math", "svg"} ->
         LET q1 == adjustTokenAttributes(reconstructActiveFormattingElements(q), tag)
             q2 == addTokElement(q1)
         IN Ret(IF Ok(q2) THEN [q2 EXCEPT !.nodes[top(q2)].Namespace = tag] ELSE q2, TRUE)
    [] tag \in {"caption", "col", "colgroup", "frame", "head", "tbody", "td", "tfoot",
                "th", "thead", "tr"} -> Ret(q, TRUE)
    [] OTHER -> Ret(addTokElement(reconstructActiveFormattingElements(q)), TRUE)

\* Every end tag handled as any other end tag.
inBodyEndTagAsOther(q) == Ret(inBodyEndTagOther(q, q.tok.Data), TRUE)

inBodyEndTag(q) ==
  LET tag == q.tok.Data IN
  CASE tag = "body" ->
         IF elementInScope(q, "defaultScope", {"body"})
         THEN Ret([q EXCEPT !.im = "afterBodyIM"], TRUE) ELSE Ret(q, TRUE)
    [] tag = "html" ->
         IF elementInScope(q, "defaultScope", {"body"})
         THEN Call(q, "EndTag", "body") ELSE Ret(q, TRUE)
    [] tag \in {"address", "article", "aside", "blockquote", "button", "center",
                "details", "dir", "div", "dl", "fieldset", "figcaption", "figure",
                "footer", "header", "hgroup", "listing", "menu", "nav", "ol", "pre",
                "section", "summary", "ul"} ->
         Ret(popUntil(q, "defaultScope", {tag}).p, TRUE)
    [] tag = "form" ->
         LET node == q.form
             q1 == [q EXCEPT !.form = Nil]
             i == indexOfElementInScope(q1, "defaultScope", {"form"})
         IN IF node = Nil \/ i = 0 \/ q1.oe[i] # node THEN Ret(q1, TRUE)
            ELSE LET q2 == generateImpliedEndTags(q1, {}) IN
                 Ret([q2 EXCEPT !.oe = remove(@, node)], TRUE)
    [] tag = "p" ->
         LET q1 == IF ~elementInScope(q, "buttonScope", {"p"})
                   THEN addElement(q, "p", <<>>) ELSE q
         IN Ret(closeP(q1), TRUE)
    [] tag = "li" -> Ret(popUntil(q, "listItemScope", {"li"}).p, TRUE)
    [] tag \in {"dd", "dt"} -> Ret(popUntil(q, "defaultScope", {tag}).p, TRUE)
    [] tag \in {"h1", "h2", "h3", "h4", "h5", "h6"} ->
         Ret(popUntil(q, "defaultScope", {"h1", "h2", "h3", "h4", "h5", "h6"}).p, TRUE)
    [] tag \in formattingTags -> Ret(inBodyEndTagFormatting(q, tag), TRUE)
    [] tag \in {"applet", "marquee", "object"} ->
         LET r == popUntil(q, "defaultScope", {tag}) IN
         Ret(IF r.ok THEN clearActiveFormattingElements(r.p) ELSE r.p, TRUE)
    [] tag = "br" -> Ret([q EXCEPT !.tok.Type = "StartTag"], FALSE)
    [] OTHER -> Ret(inBodyEndTagOther(q, tag), TRUE)

inBodyIM(q) ==
  CASE q.tok.Type = "Text" ->
         IF Len(q.oe) = 0
         THEN Ret(Panic(q, "runtime error: invalid memory address or nil pointer dereference"), TRUE)
         ELSE
         LET n == q.nodes[Last(q.oe)]
             d0 == IF n.Data \in {"pre", "listing"} /\ Len(n.Child) = 0
                   THEN DropNewline(q.tok.Text) ELSE q.tok.Text
             d == StripNul(d0)
         IN IF Len(d) = 0 THEN Ret(q, TRUE)
            ELSE Ret(noFramesetOK(addText(reconstructActiveFormattingElements(q), d)), TRUE)
    [] q.tok.Type = "StartTag" -> inBodyStartTag(q)
    [] q.tok.Type = "EndTag" -> inBodyEndTag(q)
    [] q.tok.Type = "Comment" -> Ret(addComment(q, q.tok.Data), TRUE)
    [] OTHER -> Ret(q, TRUE)


(* ------------------------------------------------------------------ *)
(* Insertion modes before the body, and the text mode.                 *)
(* ------------------------------------------------------------------ *)

\* p.doc.Add(&Node{...})
docAdd(q, node) == IF ~Ok(q) THEN q ELSE NodeAdd(Alloc(q, node), q.doc, NewId(q))

initialIMStays(q) ==
  IF q.tok.Type = "Comment"
  THEN Ret(docAdd(q, NewNode("Comment", q.tok.Data, <<>>)), TRUE)
  ELSE Ret([q EXCEPT !.quirks = TRUE], FALSE)

\* parseDoctype (doctype.go): the Doctype node, and whether the doctype
\* switches quirks mode on; here every doctype but "html" does.
parseDoctype(data) == [n |-> NewNode("Doctype", data, <<>>), quirks |-> data # "html"]

initialIM(q) ==
  LET fail == Ret([q EXCEPT !.quirks = TRUE, !.im = "beforeHTMLIM"], FALSE) IN
  CASE q.tok.Type = "Text" ->
         LET q1 == [q EXCEPT !.tok.Text = TrimLeft(@)] IN
         IF Len(q1.tok.Text) = 0 THEN Ret(q1, TRUE)
         ELSE Ret([q1 EXCEPT !.quirks = TRUE, !.im = "beforeHTMLIM"], FALSE)
    [] q.tok.Type = "Comment" -> Ret(docAdd(q, NewNode("Comment", q.tok.Data, <<>>)), TRUE)
    [] q.tok.Type = "Doctype" ->
         LET d == parseDoctype(q.tok.Data)
             q1 == docAdd(q, d.n)
         IN Ret([q1 EXCEPT !.quirks = d.quirks, !.im = "beforeHTMLIM"], TRUE)
    [] OTHER -> fail

beforeHTMLIM(q) ==
  CASE q.tok.Type = "Doctype" -> Ret(q, TRUE)
    [] q.tok.Type = "Text" ->
         LET q1 == [q EXCEPT !.tok.Text = TrimLeft(@)] IN
         IF Len(q1.tok.Text) = 0 THEN Ret(q1, TRUE) ELSE Call(q1, "StartTag", "html")
    [] q.tok.Type = "StartTag" /\ q.tok.Data = "html" ->
         Ret([addTokElement(q) EXCEPT !.im = "beforeHeadIM"], TRUE)
    [] q.tok.Type = "EndTag" ->
         IF q.tok.Data \in {"head", "body", "html", "br"}
         THEN Call(q, "StartTag", "html") ELSE Ret(q, TRUE)
    [] q.tok.Type = "Comment" -> Ret(docAdd(q, NewNode("Comment", q.tok.Data, <<>>)), TRUE)
    [] OTHER -> Call(q, "StartTag", "html")

beforeHeadIM(q) ==
  CASE q.tok.Type = "Text" ->
         LET q1 == [q EXCEPT !.tok.Text = TrimLeft(@)] IN
         IF Len(q1.tok.Text) = 0 THEN Ret(q1, TRUE) ELSE Call(q1, "StartTag", "head")
    [] q.tok.Type = "StartTag" /\ q.tok.Data = "head" ->
         LET q1 == addTokElement(q) IN
         Ret(IF Ok(q1) THEN [q1 EXCEPT !.head = top(q1), !.im = "inHeadIM"] ELSE q1, TRUE)
    [] q.tok.Type = "StartTag" /\ q.tok.Data = "html" -> Delegate(q, "inBodyIM")
    [] q.tok.Type = "EndTag" ->
         IF q.tok.Data \in {"head", "body", "html", "br"}
         THEN Call(q, "StartTag", "head") ELSE Ret(q, TRUE)
    [] q.tok.Type = "Comment" -> Ret(addComment(q, q.tok.Data), TRUE)
    [] q.tok.Type = "Doctype" -> Ret(q, TRUE)
    [] OTHER -> Call(q, "StartTag", "head")

afterHeadIM(q) ==
  LET tag == q.tok.Data
      impliedBody(q1) == CallThen(q1, "StartTag", "body", <<"framesetOK = true">>)
  IN
  CASE q.tok.Type = "Text" ->
         LET r == splitWhitespace(q) IN
         IF r.done THEN Ret(r.p, TRUE) ELSE impliedBody(r.p)
    [] q.tok.Type = "StartTag" ->
         (CASE tag = "html" -> Delegate(q, "inBodyIM")
            [] tag = "body" ->
                 Ret([noFramesetOK(addTokElement(q)) EXCEPT !.im = "inBodyIM"], TRUE)
            [] tag = "frameset" -> Ret([addTokElement(q) EXCEPT !.im = "inFramesetIM"], TRUE)
            [] tag \in {"base", "basefont", "bgsound", "link", "meta", "noframes",
                        "script", "style", "title"} ->
                 Deferred(Delegate([q EXCEPT !.oe = Append(@, q.head)], "inHeadIM"), "oe.pop")
            [] tag = "head" -> Ret(q, TRUE)
            [] OTHER -> impliedBody(q))
    [] q.tok.Type = "EndTag" ->
         IF tag \in {"body", "html", "br"} THEN impliedBody(q) ELSE Ret(q, TRUE)
    [] q.tok.Type = "Comment" -> Ret(addComment(q, tag), TRUE)
    [] q.tok.Type = "Doctype" -> Ret(q, TRUE)
    [] OTHER -> impliedBody(q)

leaveTextKeepsOriginalIM(q) ==
  IF ~Ok(q) THEN q ELSE [q EXCEPT !.im = q.originalIM]

\* The end of textIM: the original insertion mode is restored and cleared.
leaveText(q) ==
  IF ~Ok(q) THEN q ELSE [q EXCEPT !.im = q.originalIM, !.originalIM = "nil"]

textIM(q) ==
  LET back(q1) == leaveText(q1) IN
  CASE q.tok.Type = "Error" -> Ret(back(oePop(q)), FALSE)
    [] q.tok.Type = "Text" ->
         IF Len(q.oe) = 0
         THEN Ret(Panic(q, "runtime error: invalid memory address or nil pointer dereference"), TRUE)
         ELSE
         LET n == q.nodes[Last(q.oe)]
             d == IF n.Data = "textarea" /\ Len(n.Child) = 0
                  THEN DropNewline(q.tok.Text) ELSE q.tok.Text
         IN IF Len(d) = 0 THEN Ret(q, TRUE) ELSE Ret(addText(q, d), TRUE)
    [] q.tok.Type = "EndTag" -> Ret(back(oePop(q)), TRUE)
    [] OTHER -> Ret(back(q), FALSE)

(* ------------------------------------------------------------------ *)
(* Insertion modes of tables.                                          *)
(* ------------------------------------------------------------------ *)

\* p.oe.top().Data of a stack that may be empty: "" stands for the nil
\* dereference, which the callers turn into a panic.
NilDeref(q) == Panic(q, "runtime error: invalid memory address or nil pointer dereference")

\* The end of inTableIM: the token is handled as in the body, with foster
\* parenting while the current node is a table, tbody, tfoot, thead or tr.
inTableAnythingElse(q) ==
  IF q.nodes[top(q)].Data \in tableTags
  THEN Deferred(Delegate([q EXCEPT !.fosterParenting = TRUE], "inBodyIM"), "fosterParenting = false")
  ELSE Delegate(q, "inBodyIM")

inTableIMAsBody(q) == Delegate(q, "inBodyIM")

inTableIM(q) ==
  LET tag == q.tok.Data IN
  CASE q.tok.Type = "Error" -> Ret(q, TRUE)
    [] q.tok.Type = "Text" ->
         LET q1 == [q EXCEPT !.tok.Text = StripNul(@)] IN
         IF Len(q1.oe) = 0 THEN Ret(NilDeref(q1), TRUE)
         ELSE IF q1.nodes[Last(q1.oe)].Data \in tableTags /\ Len(Trim(q1.tok.Text)) = 0
         THEN Ret(addText(q1, q1.tok.Text), TRUE)
         ELSE inTableAnythingElse(q1)
    [] q.tok.Type = "StartTag" ->
         (CASE tag = "caption" ->
                 LET q1 == clearStackToContext(q, "tableScope")
                     q2 == addTokElement([q1 EXCEPT !.afe = Append(@, scopeMarker)])
                 IN Ret([q2 EXCEPT !.im = "inCaptionIM"], TRUE)
            [] tag = "colgroup" ->
                 Ret([addTokElement(clearStackToContext(q, "tableScope"))
                        EXCEPT !.im = "inColumnGroupIM"], TRUE)
            [] tag = "col" -> Call(q, "StartTag", "colgroup")
            [] tag \in {"tbody", "tfoot", "thead"} ->
                 Ret([addTokElement(clearStackToContext(q, "tableScope"))
                        EXCEPT !.im = "inTableBodyIM"], TRUE)
            [] tag \in {"td", "th", "tr"} -> Call(q, "StartTag", "tbody")
            [] tag = "table" ->
                 LET r == popUntil(q, "tableScope", {"table"}) IN
                 IF r.ok THEN Ret(resetInsertionMode(r.p), FALSE) ELSE Ret(r.p, TRUE)
            [] tag \in {"style", "script"} -> Delegate(q, "inHeadIM")
            [] tag = "input" /\ hiddenInput(q.tok.Attr) -> Ret(oePop(addTokElement(q)), TRUE)
            [] tag = "form" ->
                 IF q.form # Nil THEN Ret(q, TRUE)
                 ELSE LET q1 == addTokElement(q)
                          q2 == IF Ok(q1) /\ Len(q1.oe) > 0
                                THEN [oePop(q1) EXCEPT !.form = Last(q1.oe)] ELSE oePop(q1)
                      IN inTableAnythingElse(q2)
            [] tag = "select" ->
                 LET q1 == reconstructActiveFormattingElements(q)
                     q2 == IF Ok(q1) /\ q1.nodes[top(q1)].Data \in tableTags
                           THEN [q1 EXCEPT !.fosterParenting = TRUE] ELSE q1
                     q3 == addTokElement(q2)
                 IN Ret([noFramesetOK(q3) EXCEPT !.fosterParenting = FALSE,
                                                 !.im = "inSelectInTableIM"], TRUE)
            [] OTHER -> inTableAnythingElse(q))
    [] q.tok.Type = "EndTag" ->
         (CASE tag = "table" ->
                 LET r == popUntil(q, "tableScope", {"table"}) IN
                 IF r.ok THEN Ret(resetInsertionMode(r.p), TRUE) ELSE Ret(r.p, TRUE)
            [] tag \in {"body", "caption", "col", "colgroup", "html", "tbody", "td",
                        "tfoot", "th", "thead", "tr"} -> Ret(q, TRUE)
            [] OTHER -> inTableAnythingElse(q))
    [] q.tok.Type = "Comment" -> Ret(addComment(q, tag), TRUE)
    [] q.tok.Type = "Doctype" -> Ret(q, TRUE)
    [] OTHER -> inTableAnythingElse(q)

\* popUntil(tableScope, tags...) of a caption or cell that is then closed:
\* the active formatting elements are cleared and the mode is set.
closeTo(q, tags, mode) ==
  LET r == popUntil(q, "tableScope", tags)
      q1 == clearActiveFormattingElements(r.p)
  IN [r EXCEPT !.p = IF r.ok THEN [q1 EXCEPT !.im = mode] ELSE r.p]

\* The select start tag of inCaptionIM and inCellIM.
selectInTable(q) ==
  LET q1 == addTokElement(reconstructActiveFormattingElements(q)) IN
  Ret([noFramesetOK(q1) EXCEPT !.im = "inSelectInTableIM"], TRUE)

inCaptionIM(q) ==
  LET tag == q.tok.Data IN
  CASE q.tok.Type = "StartTag"
       /\ tag \in {"caption", "col", "colgroup", "tbody", "td", "tfoot", "thead", "tr"} ->
         LET r == closeTo(q, {"caption"}, "inTableIM") IN Ret(r.p, ~r.ok)
    [] q.tok.Type = "StartTag" /\ tag = "select" -> selectInTable(q)
    [] q.tok.Type = "EndTag" /\ tag = "caption" ->
         Ret(closeTo(q, {"caption"}, "inTableIM").p, TRUE)
    [] q.tok.Type = "EndTag" /\ tag = "table" ->
         LET r == closeTo(q, {"caption"}, "inTableIM") IN Ret(r.p, ~r.ok)
    [] q.tok.Type = "EndTag"
       /\ tag \in {"body", "col", "colgroup", "html", "tbody", "td", "tfoot", "th",
                   "thead", "tr"} -> Ret(q, TRUE)
    [] OTHER -> Delegate(q, "inBodyIM")

inColumnGroupIM(q) ==
  LET tag == q.tok.Data
      anythingElse(q1) ==
        IF Len(q1.oe) = 0 THEN Ret(NilDeref(q1), TRUE)
        ELSE IF q1.nodes[Last(q1.oe)].Data # "html"
        THEN Ret([oePop(q1) EXCEPT !.im = "inTableIM"], FALSE)
        ELSE Ret(q1, TRUE)
  IN
  CASE q.tok.Type = "Text" ->
         LET r == splitWhitespace(q) IN
         IF r.done THEN Ret(r.p, TRUE) ELSE anythingElse(r.p)
    [] q.tok.Type = "Comment" -> Ret(addComment(q, tag), TRUE)
    [] q.tok.Type = "Doctype" -> Ret(q, TRUE)
    [] q.tok.Type = "StartTag" /\ tag = "html" -> Delegate(q, "inBodyIM")
    [] q.tok.Type = "StartTag" /\ tag = "col" -> Ret(addVoidElement(q), TRUE)
    [] q.tok.Type = "EndTag" /\ tag = "colgroup" ->
         IF Len(q.oe) = 0 THEN Ret(NilDeref(q), TRUE)
         ELSE IF q.nodes[Last(q.oe)].Data # "html"
         THEN Ret([oePop(q) EXCEPT !.im = "inTableIM"], TRUE)
         ELSE Ret(q, TRUE)
    [] q.tok.Type = "EndTag" /\ tag = "col" -> Ret(q, TRUE)
    [] OTHER -> anythingElse(q)

inTableBodyIM(q) ==
  LET tag == q.tok.Data
      toTable == LET r == popUntil(q, "tableScope", {"tbody", "thead", "tfoot"}) IN
                 IF r.ok THEN Ret([r.p EXCEPT !.im = "inTableIM"], FALSE) ELSE Ret(r.p, TRUE)
  IN
  CASE q.tok.Type = "StartTag" /\ tag = "tr" ->
         Ret([addTokElement(clearStackToContext(q, "tableBodyScope"))
                EXCEPT !.im = "inRowIM"], TRUE)
    [] q.tok.Type = "StartTag" /\ tag \in {"td", "th"} -> Call(q, "StartTag", "tr")
    [] q.tok.Type = "StartTag"
       /\ tag \in {"caption", "col", "colgroup", "tbody", "tfoot", "thead"} -> toTable
    [] q.tok.Type = "EndTag" /\ tag \in {"tbody", "tfoot", "thead"} ->
         IF elementInScope(q, "tableScope", {tag})
         THEN Ret([oePop(clearStackToContext(q, "tableBodyScope"))
                     EXCEPT !.im = "inTableIM"], TRUE)
         ELSE Ret(q, TRUE)
    [] q.tok.Type = "EndTag" /\ tag = "table" -> toTable
    [] q.tok.Type = "EndTag"
       /\ tag \in {"body", "caption", "col", "colgroup", "html", "td", "th", "tr"} ->
         Ret(q, TRUE)
    [] q.tok.Type = "Comment" -> Ret(addComment(q, tag), TRUE)
    [] OTHER -> Delegate(q, "inTableIM")

inRowIM(q) ==
  LET tag == q.tok.Data
      toBody(consumed) ==
        LET r == popUntil(q, "tableScope", {"tr"}) IN
        IF r.ok THEN Ret([r.p EXCEPT !.im = "inTableBodyIM"], consumed) ELSE Ret(r.p, TRUE)
  IN
  CASE q.tok.Type = "StartTag" /\ tag \in {"td", "th"} ->
         LET q1 == addTokElement(clearStackToContext(q, "tableRowScope")) IN
         Ret(IF Ok(q1) THEN [q1 EXCEPT !.afe = Append(@, scopeMarker), !.im = "inCellIM"]
             ELSE q1, TRUE)
    [] q.tok.Type = "StartTag"
       /\ tag \in {"caption", "col", "colgroup", "tbody", "tfoot", "thead", "tr"} ->
         toBody(FALSE)
    [] q.tok.Type = "EndTag" /\ tag = "tr" -> toBody(TRUE)
    [] q.tok.Type = "EndTag" /\ tag = "table" -> toBody(FALSE)
    [] q.tok.Type = "EndTag" /\ tag \in {"tbody", "tfoot", "thead"} ->
         IF elementInScope(q, "tableScope", {tag}) THEN Call(q, "EndTag", "tr")
         ELSE Ret(q, TRUE)
    [] q.tok.Type = "EndTag"
       /\ tag \in {"body", "caption", "col", "colgroup", "html", "td", "th"} -> Ret(q, TRUE)
    [] OTHER -> Delegate(q, "inTableIM")

inCellIM(q) ==
  LET tag == q.tok.Data IN
  CASE q.tok.Type = "StartTag"
       /\ tag \in {"caption", "col", "colgroup", "tbody", "td", "tfoot", "th", "thead",
                   "tr"} ->
         LET r == closeTo(q, {"td", "th"}, "inRowIM") IN Ret(r.p, ~r.ok)
    [] q.tok.Type = "StartTag" /\ tag = "select" -> selectInTable(q)
    [] q.tok.Type = "EndTag" /\ tag \in {"td", "th"} ->
         Ret(closeTo(q, {tag}, "inRowIM").p, TRUE)
    [] q.tok.Type = "EndTag" /\ tag \in {"body", "caption", "col", "colgroup", "html"} ->
         Ret(q, TRUE)
    [] q.tok.Type = "EndTag" /\ tag \in {"table", "tbody", "tfoot", "thead", "tr"} ->
         IF ~elementInScope(q, "tableScope", {tag}) THEN Ret(q, TRUE)
         ELSE LET q1 == clearActiveFormattingElements(
                          popUntil(q, "tableScope", {"td", "th"}).p)
              IN Ret([q1 EXCEPT !.im = "inRowIM"], FALSE)
    [] OTHER -> Delegate(q, "inBodyIM")


(* ------------------------------------------------------------------ *)
(* Insertion modes: select, after body, framesets.                     *)
(* ------------------------------------------------------------------ *)

\* The top of the stack popped whatever it is.
popAlways(q, tag) == oePop(q)

popIfTop(q, tag) == IF Ok(q) /\ q.nodes[top(q)].Data = tag THEN oePop(q) ELSE q

inSelectIM(q) ==
  LET tag == q.tok.Data IN
  CASE q.tok.Type = "Error" -> Ret(q, TRUE)
    [] q.tok.Type = "Text" -> Ret(addText(q, StripNul(q.tok.Text)), TRUE)
    [] q.tok.Type = "StartTag" ->
         (CASE tag = "html" -> Delegate(q, "inBodyIM")
            [] tag = "option" -> Ret(addTokElement(popIfTop(q, "option")), TRUE)
            [] tag = "optgroup" ->
                 Ret(addTokElement(popIfTop(popIfTop(q, "option"), "optgroup")), TRUE)
            [] tag = "select" -> Ret([q EXCEPT !.tok.Type = "EndTag"], FALSE)
            [] tag \in {"input", "keygen", "textarea"} ->
                 IF elementInScope(q, "selectScope", {"select"})
                 THEN Call(q, "EndTag", "select") ELSE Ret(q, TRUE)
            [] tag = "script" -> Delegate(q, "inHeadIM")
            [] OTHER -> Ret(q, TRUE))
    [] q.tok.Type = "EndTag" ->
         (CASE tag = "option" -> Ret(popIfTop(q, "option"), TRUE)
            [] tag = "optgroup" ->
                 IF Len(q.oe) = 0 THEN Ret(Panic(q, "runtime error: index out of range"), TRUE)
                 ELSE LET i == IF q.nodes[Last(q.oe)].Data = "option"
                               THEN Len(q.oe) - 1 ELSE Len(q.oe)
                      IN IF i < 1 THEN Ret(Panic(q, "runtime error: index out of range"), TRUE)
                         ELSE IF q.nodes[q.oe[i]].Data = "optgroup"
                         THEN Ret([q EXCEPT !.oe = SubSeq(@, 1, i - 1)], TRUE)
                         ELSE Ret(q, TRUE)
            [] tag = "select" ->
                 LET r == popUntil(q, "selectScope", {"select"}) IN
                 Ret(IF r.ok THEN resetInsertionMode(r.p) ELSE r.p, TRUE)
            [] OTHER -> Ret(q, TRUE))
    [] q.tok.Type = "Comment" -> Ret(docAdd(q, NewNode("Comment", tag, <<>>)), TRUE)
    [] OTHER -> Ret(q, TRUE)

inSelectInTableIM(q) ==
  IF /\ q.tok.Type \in {"StartTag", "EndTag"}
     /\ q.tok.Data \in {"caption", "table", "tbody", "tfoot", "thead", "tr", "td", "th"}
  THEN IF q.tok.Type = "StartTag" \/ elementInScope(q, "tableScope", {q.tok.Data})
       THEN Call(q, "EndTag", "select")
       ELSE Ret(q, TRUE)
  ELSE Delegate(q, "inSelectIM")

afterBodyIM(q) ==
  LET toBody == Ret([q EXCEPT !.im = "inBodyIM"], FALSE) IN
  CASE q.tok.Type = "Error" -> Ret(q, TRUE)
    [] q.tok.Type = "Text" ->
         IF Len(TrimLeft(q.tok.Text)) = 0 THEN Delegate(q, "inBodyIM") ELSE toBody
    [] q.tok.Type = "StartTag" -> IF q.tok.Data = "html" THEN Delegate(q, "inBodyIM") ELSE toBody
    [] q.tok.Type = "EndTag" ->
         IF q.tok.Data = "html" THEN Ret([q EXCEPT !.im = "afterAfterBodyIM"], TRUE)
         ELSE toBody
    [] q.tok.Type = "Comment" ->
         IF Len(q.oe) < 1 \/ q.nodes[q.oe[1]].Data # "html"
         THEN Ret(Panic(q, "html: bad parser state: <html> element not found, in the after-body insertion mode"), TRUE)
         ELSE LET n == NewId(q) IN
              Ret(NodeAdd(Alloc(q, NewNode("Comment", q.tok.Data, <<>>)), q.oe[1], n), TRUE)
    [] OTHER -> toBody

\* The Text case of the frameset modes: all but whitespace is ignored.
framesetText(q) ==
  LET s == OnlyWhitespace(q.tok.Text) IN
  IF Len(s) # 0 THEN addText(q, s) ELSE q

inFramesetIM(q) ==
  LET tag == q.tok.Data IN
  CASE q.tok.Type = "Comment" -> Ret(addComment(q, tag), TRUE)
    [] q.tok.Type = "Text" -> Ret(framesetText(q), TRUE)
    [] q.tok.Type = "StartTag" ->
         (CASE tag = "html" -> Delegate(q, "inBodyIM")
            [] tag = "frameset" -> Ret(addTokElement(q), TRUE)
            [] tag = "frame" -> Ret(addVoidElement(q), TRUE)
            [] tag = "noframes" -> Delegate(q, "inHeadIM")
            [] OTHER -> Ret(q, TRUE))
    [] q.tok.Type = "EndTag" /\ tag = "frameset" ->
         IF Len(q.oe) = 0 THEN Ret(NilDeref(q), TRUE)
         ELSE IF q.nodes[Last(q.oe)].Data # "html"
         THEN LET q1 == oePop(q) IN
              IF Len(q1.oe) = 0 THEN Ret(NilDeref(q1), TRUE)
              ELSE IF q1.nodes[Last(q1.oe)].Data # "frameset"
              THEN Ret([q1 EXCEPT !.im = "afterFramesetIM"], TRUE)
              ELSE Ret(q1, TRUE)
         ELSE Ret(q, TRUE)
    [] OTHER -> Ret(q, TRUE)

afterFramesetIM(q) ==
  LET tag == q.tok.Data IN
  CASE q.tok.Type = "Comment" -> Ret(addComment(q, tag), TRUE)
    [] q.tok.Type = "Text" -> Ret(framesetText(q), TRUE)
    [] q.tok.Type = "StartTag" /\ tag = "html" -> Delegate(q, "inBodyIM")
    [] q.tok.Type = "StartTag" /\ tag = "noframes" -> Delegate(q, "inHeadIM")
    [] q.tok.Type = "EndTag" /\ tag = "html" ->
         Ret([q EXCEPT !.im = "afterAfterFramesetIM"], TRUE)
    [] OTHER -> Ret(q, TRUE)

afterAfterBodyIM(q) ==
  LET toBody == Ret([q EXCEPT !.im = "inBodyIM"], FALSE) IN
  CASE q.tok.Type = "Error" -> Ret(q, TRUE)
    [] q.tok.Type = "Text" ->
         IF Len(TrimLeft(q.tok.Text)) = 0 THEN Delegate(q, "inBodyIM") ELSE toBody
    [] q.tok.Type = "StartTag" -> IF q.tok.Data = "html" THEN Delegate(q, "inBodyIM") ELSE toBody
    [] q.tok.Type = "Comment" ->
         Ret(docAdd(q, NewNode("Comment", q.tok.Data, <<>>)), TRUE)
    [] q.tok.Type = "Doctype" -> Delegate(q, "inBodyIM")
    [] OTHER -> toBody

afterAfterFramesetIM(q) ==
  LET tag == q.tok.Data IN
  CASE q.tok.Type = "Comment" -> Ret(docAdd(q, NewNode("Comment", tag, <<>>)), TRUE)
    [] q.tok.Type = "Text" ->
         LET s == OnlyWhitespace(q.tok.Text) IN
         IF Len(s) # 0 THEN Delegate([q EXCEPT !.tok.Text = s], "inBodyIM") ELSE Ret(q, TRUE)
    [] q.tok.Type = "StartTag" /\ tag = "html" -> Delegate(q, "inBodyIM")
    [] q.tok.Type = "StartTag" /\ tag = "noframes" -> Delegate(q, "inHeadIM")
    [] q.tok.Type = "Doctype" -> Delegate(q, "inBodyIM")
    [] OTHER -> Ret(q, TRUE)

\* p.im(p): the call of the current insertion mode.  Calling the nil mode is
\* a run-time error.
callIM(q, h) ==
  CASE h = "initialIM" -> initialIM(q)
    [] h = "beforeHTMLIM" -> beforeHTMLIM(q)
    [] h = "beforeHeadIM" -> beforeHeadIM(q)
    [] h = "inHeadIM" -> inHeadIM(q)
    [] h = "afterHeadIM" -> afterHeadIM(q)
    [] h = "inBodyIM" -> inBodyIM(q)
    [] h = "textIM" -> textIM(q)
    [] h = "inTableIM" -> inTableIM(q)
    [] h = "inCaptionIM" -> inCaptionIM(q)
    [] h = "inColumnGroupIM" -> inColumnGroupIM(q)
    [] h = "inTableBodyIM" -> inTableBodyIM(q)
    [] h = "inRowIM" -> inRowIM(q)
    [] h = "inCellIM" -> inCellIM(q)
    [] h = "inSelectIM" -> inSelectIM(q)
    [] h = "inSelectInTableIM" -> inSelectInTableIM(q)
    [] h = "afterBodyIM" -> afterBodyIM(q)
    [] h = "inFramesetIM" -> inFramesetIM(q)
    [] h = "afterFramesetIM" -> afterFramesetIM(q)
    [] h = "afterAfterBodyIM" -> afterAfterBodyIM(q)
    [] h = "afterAfterFramesetIM" -> afterAfterFramesetIM(q)
    [] OTHER -> Ret(NilDeref(q), TRUE)

(* ------------------------------------------------------------------ *)
(* Foreign content.                                                    *)
(* ------------------------------------------------------------------ *)

breakout ==
  {"b", "big", "blockquote", "body", "br", "center", "code", "dd", "div", "dl", "dt",
   "em", "embed", "h1", "h2", "h3", "h4", "h5", "h6", "head", "hr", "i", "img", "li",
   "listing", "menu", "meta", "nobr", "ol", "p", "pre", "ruby", "s", "small", "span",
   "strong", "strike", "sub", "sup", "table", "tt", "u", "ul", "var"}

svgTagNameAdjustments(tag) ==
  CASE tag = "foreignobject" -> "foreignObject"
    [] tag = "clippath" -> "clipPath"
    [] OTHER -> ""

htmlIntegrationPoint(n) ==
  /\ n.Type = "Element"
  /\ \/ n.Namespace = "svg" /\ n.Data \in {"desc", "foreignObject", "title"}
     \/ /\ n.Namespace = "math" /\ n.Data = "annotation-xml"
        /\ \E i \in 1..Len(n.Attr) :
             /\ n.Attr[i].Key = "encoding"
             /\ ToLower(n.Attr[i].Val) \in {"text/html", "application/xhtml+xml"}

mathMLTextIntegrationPoint(n) ==
  n.Namespace = "math" /\ n.Data \in {"mi", "mo", "mn", "ms", "mtext"}

\* The stack cut above the highest element of the HTML namespace only.
breakoutPopToHTML(q) ==
  LET hits == {i \in 1..Len(q.oe) : q.nodes[q.oe[i]].Namespace = ""}
  IN IF hits = {} THEN q ELSE [q EXCEPT !.oe = SubSeq(@, 1, Max(hits))]

\* The loop of a breakout start tag: the stack is cut above the highest
\* element that is in the HTML namespace or an integration point.
breakoutPop(q) ==
  LET hits == {i \in 1..Len(q.oe) :
                 LET n == q.nodes[q.oe[i]] IN
                 n.Namespace = "" \/ htmlIntegrationPoint(n) \/ mathMLTextIntegrationPoint(n)}
  IN IF hits = {} THEN q ELSE [q EXCEPT !.oe = SubSeq(@, 1, Max(hits))]

\* The loop of an end tag in foreign content that leaves the matching
\* element on the stack.
RECURSIVE foreignEndTagKeepsMatch(_, _)
foreignEndTagKeepsMatch(q, i) ==
  IF i = 0 THEN Ret(q, TRUE)
  ELSE IF q.nodes[q.oe[i]].Namespace = "" THEN Delegate(q, q.im)
  ELSE IF EqualFold(q.nodes[q.oe[i]].Data, q.tok.Data)
  THEN Ret([q EXCEPT !.oe = SubSeq(@, 1, i)], TRUE)
  ELSE foreignEndTagKeepsMatch(q, i - 1)

\* The loop of an end tag in foreign content from position i down.
RECURSIVE foreignEndTag(_, _)
foreignEndTag(q, i) ==
  IF i = 0 THEN Ret(q, TRUE)
  ELSE IF q.nodes[q.oe[i]].Namespace = "" THEN Delegate(q, q.im)
  ELSE IF EqualFold(q.nodes[q.oe[i]].Data, q.tok.Data)
  THEN Ret([q EXCEPT !.oe = SubSeq(@, 1, i - 1)], TRUE)
  ELSE foreignEndTag(q, i - 1)

parseForeignContent(q) ==
  CASE q.tok.Type = "Text" ->
         LET q1 == [q EXCEPT !.tok.Text = StripNul(@)]
             q2 == IF q1.framesetOK
                   THEN [q1 EXCEPT !.framesetOK = Len(TrimLeft(q1.tok.Text)) = 0]
                   ELSE q1
         IN Ret(addText(q2, q2.tok.Text), TRUE)
    [] q.tok.Type = "Comment" -> Ret(addComment(q, q.tok.Data), TRUE)
    [] q.tok.Type = "StartTag" ->
         LET b == \/ q.tok.Data \in breakout
                  \/ /\ q.tok.Data = "font"
                     /\ \E i \in 1..Len(q.tok.Attr) :
                          q.tok.Attr[i].Key \in {"color", "face", "size"}
             namespace == q.nodes[top(q)].Namespace
         IN IF b THEN Ret(breakoutPop(q), FALSE)
            ELSE IF namespace \notin {"math", "svg"}
            THEN Ret(Panic(q, "html: bad parser state: unexpected namespace"), TRUE)
            ELSE
            LET q1 == IF namespace = "svg" /\ svgTagNameAdjustments(q.tok.Data) # ""
                      THEN [q EXCEPT !.tok.Data = svgTagNameAdjustments(@)] ELSE q
                q2 == adjustTokenAttributes(q1, namespace)
                q3 == addTokElement(q2)
                q4 == IF Ok(q3) THEN [q3 EXCEPT !.nodes[top(q3)].Namespace = namespace]
                      ELSE q3
            IN IF q4.hasSelfClosingToken
               THEN Ret(acknowledgeSelfClosingTag(oePop(q4)), TRUE)
               ELSE Ret(q4, TRUE)
    [] q.tok.Type = "EndTag" -> foreignEndTag(q, Len(q.oe))
    [] OTHER -> Ret(q, TRUE)

inForeignContentNever(q) == FALSE

inForeignContent(q) ==
  IF Len(q.oe) = 0 THEN FALSE
  ELSE LET n == q.nodes[Last(q.oe)] IN
       IF n.Namespace = "" THEN FALSE
       ELSE IF mathMLTextIntegrationPoint(n)
               /\ \/ q.tok.Type = "StartTag" /\ q.tok.Data \notin {"mglyph", "malignmark"}
                  \/ q.tok.Type = "Text"
       THEN FALSE
       ELSE IF n.Namespace = "math" /\ n.Data = "annotation-xml"
               /\ q.tok.Type = "StartTag" /\ q.tok.Data = "svg"
       THEN FALSE
       ELSE IF htmlIntegrationPoint(n) /\ q.tok.Type \in {"StartTag", "Text"}
       THEN FALSE
       ELSE IF q.tok.Type = "Error" THEN FALSE
       ELSE TRUE


(* ------------------------------------------------------------------ *)
(* The tokenizer (token.go): the tokens it may deliver next.           *)
(* ------------------------------------------------------------------ *)

rawTags ==
  {"iframe", "noembed", "noframes", "noscript", "plaintext", "script", "style",
   "title", "textarea", "xmp"}

T(tag) == Tok("StartTag", tag, <<>>)
E(tag) == Tok("EndTag", tag, <<>>)
SC(tag) == Tok("SelfClosingTag", tag, <<>>)

\* The alphabets of the inputs: the tokens an input is made of.
Alphabet(name) ==
  CASE name = "document" ->
         {Tok("Doctype", "html", <<>>), Tok("Comment", "c", <<>>),
          TextTok(<<"SP">>), TextTok(<<"SP", "x">>),
          Tok("StartTag", "html", <<A("lang", "en"), A("id", "r")>>),
          Tok("StartTag", "html", <<A("id", "s"), A("dir", "ltr")>>),
          T("head"), E("head"), T("body"), E("body"), E("html"),
          T("title"), T("frameset"), T("div")}
    [] name = "formatting" ->
         {TextTok(<<"x">>), T("a"), E("a"), T("b"), E("b"), T("i"), T("p"), E("p"),
          T("div"), T("table"), T("applet"), E("applet"), SC("br")}
    [] name = "table" ->
         {TextTok(<<"SP">>), TextTok(<<"x">>), T("table"), E("table"), T("caption"),
          T("col"), T("tr"), E("tr"), T("td"), E("td"), T("select"), T("b"),
          T("form"), Tok("StartTag", "input", <<A("type", "HIDDEN")>>)}
    [] name = "select" ->
         {TextTok(<<"NUL", "x">>), T("select"), E("select"), T("option"),
          T("optgroup"), E("optgroup"), E("option"), T("input"), T("table"), T("td"),
          E("table"), T("script"), T("textarea")}
    [] name = "foreign" ->
         {TextTok(<<"x">>), T("svg"), E("svg"), T("math"), T("mi"),
          T("foreignobject"), E("foreignobject"), T("desc"), T("p"), E("p"), SC("g"),
          T("title"),
          T("table"), Tok("StartTag", "font", <<A("color", "red")>>)}
    [] name = "blocks" ->
         {TextTok(<<"LF", "x">>), T("pre"), T("li"), E("li"), T("ul"), T("h1"),
          E("h1"), T("button"), E("button"), T("form"), E("form"), T("isindex"),
          T("textarea"), T("frameset")}
    [] name = "redispatch" ->
         {TextTok(<<"x">>), T("svg"), T("p"), T("table"), T("td"), T("select")}
    [] name = "comments" ->
         {Tok("Comment", "c", <<>>), T("select"), T("table"), T("td"), T("caption"),
          T("colgroup"), T("frameset"), E("frameset"), E("body"), E("html"), T("svg")}
    [] name = "integration" ->
         {T("svg"), T("desc"), T("math"), T("mi"), T("mglyph"), T("p"),
          Tok("StartTag", "font", <<A("size", "1")>>)}
    [] name = "adoption" ->
         {TextTok(<<"x">>), T("b"), E("b"), T("i"), T("p"), E("p"), T("applet")}
    [] OTHER -> {}

\* The Error token; the tokenizer's Err() is EOF or an error of the reader.
ErrorTok == Tok("Error", "", <<>>)

\* The tokens the tokenizer may deliver: inside a raw-text element only its
\* text and its end tag (plaintext has none), or the end of the input.
NextTokens(q) ==
  IF q.rawTag # ""
  THEN {TextTok(<<"x">>)} \cup (IF q.rawTag = "plaintext" THEN {} ELSE {E(q.rawTag)})
  ELSE Alphabet(cfg.alphabet)

\* Tokenizer.Next: the tokenizer's raw tag after it delivered tok.
rawAfter(q, tok) ==
  IF tok.Type \in {"StartTag", "SelfClosingTag"} /\ tok.Data \in rawTags THEN tok.Data
  ELSE IF tok.Type = "EndTag" /\ tok.Data = q.rawTag THEN ""
  ELSE q.rawTag

(* ------------------------------------------------------------------ *)
(* The entry points, parse and parseCurrentToken.                      *)
(* ------------------------------------------------------------------ *)

Zero ==
  [tok |-> ErrorTok, hasSelfClosingToken |-> FALSE, doc |-> Nil, oe |-> <<>>,
   afe |-> <<>>, head |-> Nil, form |-> Nil, scripting |-> FALSE,
   framesetOK |-> FALSE, im |-> "nil", originalIM |-> "nil",
   fosterParenting |-> FALSE, quirks |-> FALSE, context |-> Nil,
   nodes |-> <<>>, rawTag |-> "", panic |-> ""]

NoRet == [nodes |-> <<>>, err |-> "none"]

\* The package's scopeMarker and the Document a constructor allocates.
Heap0 == <<NewNode("Document", "", <<>>), NewNode("scopeMarker", "", <<>>)>>

\* Parse up to its call of parse.
ParseNew ==
  [Zero EXCEPT !.doc = Doc, !.nodes = Heap0, !.scripting = TRUE,
               !.framesetOK = TRUE, !.im = "initialIM"]

\* The contexts of ParseFragment: none, or an element with the tag, which
\* is the child of a form element when inForm.
Contexts ==
  {[tag |-> "", inForm |-> FALSE]} \cup
  {[tag |-> t, inForm |-> FALSE] : t \in {"div", "td", "tr", "tbody", "table", "select",
                                          "title", "form", "html"}} \cup
  {[tag |-> "div", inForm |-> TRUE]}

\* The caller's nodes: the context, at 3, and its parent, at 4.
callerNodes(c) ==
  IF c.tag = "" THEN <<>>
  ELSE IF c.inForm
  THEN <<[NewNode("Element", c.tag, <<>>) EXCEPT !.Parent = 4],
         [NewNode("Element", "form", <<>>) EXCEPT !.Child = <<3>>]>>
  ELSE <<NewNode("Element", c.tag, <<>>)>>

\* ParseFragment's search of the form element from the context upwards.
RECURSIVE formOf(_, _)
formOf(q, n) ==
  IF n = Nil THEN Nil
  ELSE IF q.nodes[n].Type = "Element" /\ q.nodes[n].Data = "form" THEN n
  ELSE formOf(q, q.nodes[n].Parent)

\* ParseFragment's root: the node allocated after the caller's.
fragmentRoot(c) == Len(Heap0) + Len(callerNodes(c)) + 1

\* ParseFragment up to its call of parse.
ParseFragmentNew(c) ==
  LET ctx == IF c.tag = "" THEN Nil ELSE 3
      q0 == [Zero EXCEPT !.doc = Doc, !.nodes = Heap0 \o callerNodes(c),
                         !.scripting = TRUE, !.context = ctx,
                         !.rawTag = IF c.tag \in rawTags THEN c.tag ELSE ""]
      root == NewId(q0)
      q1 == NodeAdd(Alloc(q0, NewNode("Element", "html", <<>>)), Doc, root)
      q2 == resetInsertionMode([q1 EXCEPT !.oe = <<root>>])
  IN [q2 EXCEPT !.form = formOf(q2, ctx)]

ParseFragmentResultOfDocument(q, c) ==
  [nodes |-> q.nodes[q.doc].Child,
   p |-> [q EXCEPT !.nodes =
            [i \in 1..Len(q.nodes) |->
               IF i = q.doc THEN [q.nodes[i] EXCEPT !.Child = <<>>]
               ELSE IF i \in Range(q.nodes[q.doc].Child)
               THEN [q.nodes[i] EXCEPT !.Parent = Nil]
               ELSE q.nodes[i]]]]

\* The tail of ParseFragment: the result, and the parser afterwards.
ParseFragmentResult(q, c) ==
  LET parent == IF q.context # Nil THEN fragmentRoot(c) ELSE q.doc
      result == q.nodes[parent].Child
  IN [nodes |-> result,
      p |-> [q EXCEPT !.nodes =
               [i \in 1..Len(q.nodes) |->
                  IF i = parent THEN [q.nodes[i] EXCEPT !.Child = <<>>]
                  ELSE IF i \in Range(result) THEN [q.nodes[i] EXCEPT !.Parent = Nil]
                  ELSE q.nodes[i]]]]

\* A self-closing tag read as a start tag without the flag.
selfClosingNever(q) ==
  IF q.tok.Type = "SelfClosingTag" THEN [q EXCEPT !.tok.Type = "StartTag"] ELSE q

\* The start of parseCurrentToken: a self-closing tag is a start tag whose
\* end tag is due.
selfClosing(q) ==
  IF q.tok.Type = "SelfClosingTag"
  THEN [q EXCEPT !.hasSelfClosingToken = TRUE, !.tok.Type = "StartTag"]
  ELSE q

\* The deferred statements post of a handler whose return value is r.
RECURSIVE DeferredAll(_, _)
DeferredAll(r, post) ==
  IF Len(post) = 0 THEN r ELSE DeferredAll(Deferred(r, Head(post)), Tail(post))

\* The call h(p) of a handler, with the calls of handlers that return
\* another handler's value.
RECURSIVE run(_, _)
run(q, h) ==
  LET return(r) == IF r.to = "" \/ ~Ok(r.p) THEN r
                   ELSE DeferredAll(run(r.p, r.to), r.post)
  IN return(IF h = "parseForeignContent" THEN parseForeignContent(q) ELSE callIM(q, h))

\* One iteration of the loop of parseCurrentToken.
dispatch(q) == run(q, IF inForeignContent(q) THEN "parseForeignContent" ELSE q.im)

parseLoopForever(err) == TRUE

\* The condition of the loop of parse.
parseLoop(err) == err # "EOF"

RECURSIVE ApplyPosts(_, _)
ApplyPosts(q, post) ==
  IF Len(post) = 0 THEN q ELSE ApplyPosts(ApplyPost(q, Head(post)), Tail(post))

\* parseCurrentToken and parseImpliedToken as the functions they are: the
\* parser after the token of q has been run through the handlers until it is
\* consumed, the implied tokens of the handlers and the end tag of a
\* self-closing tag included. fuel bounds the iterations of the loop.
RECURSIVE parseCurrentToken(_, _)
parseImpliedToken(q, type, data, fuel) ==
  LET restore(q1) ==
        IF Ok(q1) THEN [q1 EXCEPT !.tok = q.tok,
                                  !.hasSelfClosingToken = q.hasSelfClosingToken]
        ELSE q1
  IN restore(parseCurrentToken([q EXCEPT !.tok = Tok(type, data, <<>>),
                                         !.hasSelfClosingToken = FALSE], fuel))

\* The loop of parseCurrentToken.
RECURSIVE tokenLoop(_, _)
tokenLoop(q, fuel) ==
  IF ~Ok(q) THEN q
  ELSE IF fuel = 0 THEN Panic(q, "loop bound")
  ELSE LET next(r) ==
             IF ~Ok(r.p) THEN r.p
             ELSE IF r.call # NoCall
             THEN tokenLoop(ApplyPosts(parseImpliedToken(r.p, r.call.Type, r.call.Data,
                                                         fuel - 1), r.post), fuel - 1)
             ELSE IF r.consumed THEN r.p
             ELSE tokenLoop(r.p, fuel - 1)
       IN next(dispatch(q))

parseCurrentToken(q, fuel) ==
  LET end(q1) ==
        IF Ok(q1) /\ q1.hasSelfClosingToken
        THEN parseImpliedToken([q1 EXCEPT !.hasSelfClosingToken = FALSE],
                               "EndTag", q1.tok.Data, fuel)
        ELSE q1
  IN end(tokenLoop(selfClosing(q), fuel))

\* The parser before its construction.
\* The alphabet of the fragments parsed in the context.
FragmentAlphabet(c) ==
  CASE c.tag \in {"select", "title"} -> "select"
    [] c.tag \in {"form", "html"} -> "blocks"
    [] c.inForm -> "blocks"
    [] c.tag = "" -> "document"
    [] OTHER -> "table"

Init ==
  /\ p = Zero
  /\ pc = "start"
  /\ frames = <<>>
  /\ rdErr = "nil"
  /\ ntok = 0
  /\ ndisp = 0
  /\ nloop = 0
  /\ ret = NoRet
  /\ cfg \in [entry : {"Parse"}, context : {[tag |-> "", inForm |-> FALSE]},
              alphabet : {"document", "formatting", "table", "select", "foreign",
                          "blocks", "redispatch", "comments", "integration"}]
            \cup {[entry |-> "ParseFragment", context |-> c,
                   alphabet |-> FragmentAlphabet(c)] : c \in Contexts}

Parse ==
  /\ pc = "start" /\ cfg.entry = "Parse"
  /\ p' = ParseNew
  /\ pc' = "read"
  /\ UNCHANGED <<frames, rdErr, ntok, ndisp, nloop, ret, cfg>>

ParseFragment ==
  /\ pc = "start" /\ cfg.entry = "ParseFragment"
  /\ p' = ParseFragmentNew(cfg.context)
  /\ pc' = "read"
  /\ UNCHANGED <<frames, rdErr, ntok, ndisp, nloop, ret, cfg>>

\* The number of tokens the tokenizer delivers at most.
TokenLimit ==
  IF cfg.alphabet = "adoption" THEN MaxAdoptionTokens
  ELSE IF cfg.alphabet = "integration" THEN MaxTokens + 1
  ELSE MaxTokens

\* parse: read, and either the return of the reader's error or the call of
\* parseCurrentToken up to its loop.
Read ==
  /\ pc = "read"
  /\ ntok' = ntok + 1
  /\ \/ /\ ntok < TokenLimit
        /\ \E tok \in NextTokens(p) :
             p' = selfClosing([p EXCEPT !.tok = tok, !.rawTag = rawAfter(p, tok)])
        /\ rdErr' = "nil" /\ pc' = "loop" /\ ndisp' = ndisp + 1 /\ nloop' = 0
        /\ ret' = ret
     \/ /\ p' = [p EXCEPT !.tok = ErrorTok]
        /\ rdErr' = "EOF" /\ pc' = "loop" /\ ndisp' = ndisp + 1 /\ nloop' = 0
        /\ ret' = ret
     \/ /\ p' = [p EXCEPT !.tok = ErrorTok]
        /\ rdErr' = "io" /\ pc' = "done"
        /\ ret' = [nodes |-> <<>>, err |-> "io"]
        /\ UNCHANGED <<ndisp, nloop>>
  /\ UNCHANGED <<frames, cfg>>

\* One iteration of the loop of parseCurrentToken: the handler runs; a call
\* of parseImpliedToken it makes starts the parse of the implied token.
Dispatch ==
  /\ pc = "loop" /\ nloop < MaxLoop
  /\ nloop' = nloop + 1
  /\ \E r \in {dispatch(p)} :
     IF ~Ok(r.p)
     THEN /\ p' = [p EXCEPT !.panic = r.p.panic]
          /\ pc' = "panic"
          /\ frames' = frames
     ELSE IF r.call # NoCall
     THEN /\ frames' = Append(frames, [tok |-> r.p.tok,
                                       selfClosing |-> r.p.hasSelfClosingToken,
                                       post |-> r.post, from |-> "handler"])
          /\ p' = [r.p EXCEPT !.tok = Tok(r.call.Type, r.call.Data, <<>>),
                              !.hasSelfClosingToken = FALSE]
          /\ pc' = "loop"
     ELSE /\ p' = r.p
          /\ pc' = IF r.consumed THEN "exit" ELSE "loop"
          /\ frames' = frames
  /\ UNCHANGED <<rdErr, ntok, ndisp, ret, cfg>>

\* The end of parseCurrentToken: the end tag of a self-closing tag is
\* parsed as an implied token; otherwise parseCurrentToken returns, to
\* parseImpliedToken (which restores the token and the flag) or to parse.
Finish ==
  /\ pc = "exit"
  /\ IF p.hasSelfClosingToken
     THEN /\ frames' = Append(frames, [tok |-> p.tok, selfClosing |-> FALSE,
                                       post |-> <<>>, from |-> "parseCurrentToken"])
          /\ p' = [p EXCEPT !.tok = Tok("EndTag", p.tok.Data, <<>>),
                            !.hasSelfClosingToken = FALSE]
          /\ pc' = "loop"
     ELSE IF Len(frames) > 0
     THEN LET f == Last(frames)
              q == ApplyPosts([p EXCEPT !.tok = f.tok,
                                        !.hasSelfClosingToken = f.selfClosing], f.post)
          IN /\ frames' = Front(frames)
             /\ IF Ok(q) THEN p' = q ELSE p' = [p EXCEPT !.panic = q.panic]
             /\ pc' = IF ~Ok(q) THEN "panic"
                      ELSE IF f.from = "handler" THEN "loop" ELSE "exit"
     ELSE /\ pc' = IF parseLoop(rdErr) THEN "read" ELSE "return"
          /\ UNCHANGED <<p, frames>>
  /\ UNCHANGED <<rdErr, ntok, ndisp, nloop, ret, cfg>>

\* parse has returned nil: Parse returns the document, ParseFragment the
\* children of the root or of the document.
Return ==
  /\ pc = "return"
  /\ pc' = "done"
  /\ IF cfg.entry = "Parse"
     THEN ret' = [nodes |-> <<p.doc>>, err |-> "nil"] /\ p' = p
     ELSE LET r == ParseFragmentResult(p, cfg.context) IN
          ret' = [nodes |-> r.nodes, err |-> "nil"] /\ p' = r.p
  /\ UNCHANGED <<frames, rdErr, ntok, ndisp, nloop, cfg>>

Next == Parse \/ ParseFragment \/ Read \/ Dispatch \/ Finish \/ Return

Spec == Init /\ [][Next]_vars



(* ------------------------------------------------------------------ *)
(* The parse of documents of formatting elements and blocks.           *)
(* ------------------------------------------------------------------ *)

InitAdoption ==
  /\ p = Zero
  /\ pc = "start"
  /\ frames = <<>>
  /\ rdErr = "nil"
  /\ ntok = 0
  /\ ndisp = 0
  /\ nloop = 0
  /\ ret = NoRet
  /\ cfg = [entry |-> "Parse", context |-> [tag |-> "", inForm |-> FALSE],
            alphabet |-> "adoption"]

NextAdoption == Parse \/ Read \/ Dispatch \/ Finish \/ Return

AdoptionSpec == InitAdoption /\ [][NextAdoption]_vars

(* ------------------------------------------------------------------ *)
(* The parse of the documents of the end-to-end scenarios.             *)
(* ------------------------------------------------------------------ *)

DocumentNames ==
  {"<p>Hello", "<b><i>x</b>y", "<table><td>x</table>", "<p>a<p>b",
   "<select><option>a<option>b</select>",
   "<svg><g><foreignObject><p>x</foreignObject></g></svg>"}

\* The tokens the tokenizer delivers for the document: it lower-cases the
\* names of the tags.
Document(name) ==
  CASE name = "<p>Hello" -> <<T("p"), TextTok(<<"H", "e", "l", "l", "o">>)>>
    [] name = "<b><i>x</b>y" ->
         <<T("b"), T("i"), TextTok(<<"x">>), E("b"), TextTok(<<"y">>)>>
    [] name = "<table><td>x</table>" ->
         <<T("table"), T("td"), TextTok(<<"x">>), E("table")>>
    [] name = "<p>a<p>b" -> <<T("p"), TextTok(<<"a">>), T("p"), TextTok(<<"b">>)>>
    [] name = "<select><option>a<option>b</select>" ->
         <<T("select"), T("option"), TextTok(<<"a">>), T("option"), TextTok(<<"b">>),
           E("select")>>
    [] name = "<svg><g><foreignObject><p>x</foreignObject></g></svg>" ->
         <<T("svg"), T("g"), T("foreignobject"), T("p"), TextTok(<<"x">>),
           E("foreignobject"), E("g"), E("svg")>>

\* Parse is called with a reader of one of the documents, or of a prefix of
\* it when the reader fails.
InitDocument ==
  /\ p = Zero
  /\ pc = "start"
  /\ frames = <<>>
  /\ rdErr = "nil"
  /\ ntok = 0
  /\ ndisp = 0
  /\ nloop = 0
  /\ ret = NoRet
  /\ cfg \in [entry : {"Parse"}, context : {[tag |-> "", inForm |-> FALSE]},
              alphabet : DocumentNames]

\* parse, with the tokenizer of the document: the next token, the end of
\* the document, or an error of the reader.
ReadDocument ==
  /\ pc = "read"
  /\ ntok' = ntok + 1
  /\ \/ /\ ntok < Len(Document(cfg.alphabet))
        /\ \E tok \in {Document(cfg.alphabet)[ntok + 1]} :
             p' = selfClosing([p EXCEPT !.tok = tok, !.rawTag = rawAfter(p, tok)])
        /\ rdErr' = "nil" /\ pc' = "loop" /\ ndisp' = ndisp + 1 /\ nloop' = 0
        /\ ret' = ret
     \/ /\ ntok = Len(Document(cfg.alphabet))
        /\ p' = [p EXCEPT !.tok = ErrorTok]
        /\ rdErr' = "EOF" /\ pc' = "loop" /\ ndisp' = ndisp + 1 /\ nloop' = 0
        /\ ret' = ret
     \/ /\ p' = [p EXCEPT !.tok = ErrorTok]
        /\ rdErr' = "io" /\ pc' = "done"
        /\ ret' = [nodes |-> <<>>, err |-> "io"]
        /\ UNCHANGED <<ndisp, nloop>>
  /\ UNCHANGED <<frames, cfg>>

NextDocument == Parse \/ ReadDocument \/ Dispatch \/ Finish \/ Return

DocumentSpec == InitDocument /\ [][NextDocument]_vars

(* ------------------------------------------------------------------ *)
(* The functions of the stack of open elements, called on a stack.     *)
(* ------------------------------------------------------------------ *)

MaxStack == 3

\* The elements of the stacks: a tag and a namespace.
StackElements ==
  {[tag |-> t, ns |-> ""] : t \in {"table", "tr", "tbody", "button", "ol", "option"}}
  \cup {[tag |-> "table", ns |-> "svg"], [tag |-> "mi", ns |-> "math"]}

\* The stack of the comment of popUntil.
ExampleStack ==
  [i \in 1..7 |-> [tag |-> <<"html", "body", "font", "table", "b", "i", "u">>[i], ns |-> ""]]

\* The stacks: none, or the root html with up to MaxStack elements above.
Stacks ==
  {<<>>, ExampleStack}
  \cup {<<[tag |-> "html", ns |-> ""]>> \o s :
          s \in UNION {[1..k -> StackElements] : k \in 0..MaxStack}}

\* The parser after the elements were added and pushed, each the child of
\* the one below; with sib, a table has a sibling of that type before it
\* and a comment after it.
RECURSIVE openElements(_, _, _)
openElements(q, elems, sib) ==
  IF Len(elems) = 0 THEN q
  ELSE
  LET e == Head(elems)
      around == e.tag = "table" /\ sib # "none"
      rest(q3) == openElements(q3, Tail(elems), sib)
      after(q2) ==
        rest(IF around
             THEN NodeAdd(Alloc(q2, NewNode("Comment", "c", <<>>)),
                          q2.nodes[top(q2)].Parent, NewId(q2))
             ELSE q2)
      pushed(q1) == after([q1 EXCEPT !.nodes[top(q1)].Namespace = e.ns])
      before(q0) == pushed(addElement(q0, e.tag, <<>>))
  IN before(IF around /\ sib = "Text" THEN addText(q, <<"a">>)
            ELSE IF around THEN oePop(addElement(q, "br", <<>>))
            ELSE q)

\* The calls: the function, its scope and tags, the type of its node, and
\* the siblings of the tables of the tree it is called with. fosterParent
\* is called when inTableIM has found a table, tbody, tfoot, thead or tr on
\* top of the stack.
Calls ==
  [entry : {"popUntil", "indexOfElementInScope"},
   scope : {"defaultScope", "listItemScope", "buttonScope", "tableScope", "tableRowScope",
            "tableBodyScope", "selectScope"},
   tags : {{"table"}, {"font"}, {"i"}, {"option"}, {"tr", "tbody"}, {"mi"}},
   node : {"none"}, sib : {"none"}]
  \cup [entry : {"clearStackToContext"},
        scope : {"tableScope", "tableRowScope", "tableBodyScope", "selectScope"},
        tags : {{}}, node : {"none"}, sib : {"none"}]
  \cup [entry : {"fosterParent"}, scope : {"defaultScope"}, tags : {{}},
        node : {"Text", "Element"}, sib : {"none", "Text", "Element"}]

InitStack ==
  /\ cfg \in Calls
  /\ p \in {[openElements(ParseNew, s, cfg.sib)
               EXCEPT !.fosterParenting = (cfg.entry = "fosterParent")] :
             s \in {t \in Stacks : cfg.entry = "fosterParent" =>
                                     Len(t) > 0 /\ Last(t).tag \in tableTags}}
  /\ pc = "start"
  /\ frames = <<>>
  /\ rdErr = "nil"
  /\ ntok = 0
  /\ ndisp = 0
  /\ nloop = 0
  /\ ret = NoRet

\* p.popUntil(scope, tags...)
PopUntil ==
  /\ pc = "start" /\ cfg.entry = "popUntil"
  /\ \E r \in {popUntil(p, cfg.scope, cfg.tags)} :
       /\ p' = r.p
       /\ ret' = [ok |-> r.ok]
       /\ pc' = IF Ok(r.p) THEN "done" ELSE "panic"
  /\ UNCHANGED <<frames, rdErr, ntok, ndisp, nloop, cfg>>

\* p.indexOfElementInScope(scope, tags...): the position on the stack, 0
\* for none.
IndexOfElementInScope ==
  /\ pc = "start" /\ cfg.entry = "indexOfElementInScope"
  /\ \E i \in {indexOfElementInScope(p, cfg.scope, cfg.tags)} :
       /\ p' = IF i = Unreachable THEN Panic(p, "unreachable") ELSE p
       /\ ret' = [index |-> i]
       /\ pc' = IF i = Unreachable THEN "panic" ELSE "done"
  /\ UNCHANGED <<frames, rdErr, ntok, ndisp, nloop, cfg>>

\* p.clearStackToContext(scope)
ClearStackToContext ==
  /\ pc = "start" /\ cfg.entry = "clearStackToContext"
  /\ p' = clearStackToContext(p, cfg.scope)
  /\ pc' = IF Ok(p') THEN "done" ELSE "panic"
  /\ UNCHANGED <<frames, rdErr, ntok, ndisp, nloop, ret, cfg>>

\* p.fosterParent(n), n a new node
FosterParent ==
  /\ pc = "start" /\ cfg.entry = "fosterParent"
  /\ p' = fosterParent(Alloc(p, IF cfg.node = "Text" THEN NewText(<<"x">>)
                                ELSE NewNode("Element", "b", <<>>)), NewId(p))
  /\ pc' = IF Ok(p') THEN "done" ELSE "panic"
  /\ UNCHANGED <<frames, rdErr, ntok, ndisp, nloop, ret, cfg>>

NextStack == PopUntil \/ IndexOfElementInScope \/ ClearStackToContext \/ FosterParent

StackSpec == InitStack /\ [][NextStack]_vars

(* ------------------------------------------------------------------ *)
(* Properties.                                                         *)
(* ------------------------------------------------------------------ *)

Returned == pc = "done" /\ ret.err = "nil"

NodeIds == 1..Len(p.nodes)

Children(n) == p.nodes[n].Child

ChildSet(n) == Range(Children(n))

IsElement(n, tag) == p.nodes[n].Type = "Element" /\ p.nodes[n].Data = tag

\* The number of entries of s that are x.
RECURSIVE CountIn(_, _)
CountIn(s, x) ==
  IF Len(s) = 0 THEN 0
  ELSE (IF Head(s) = x THEN 1 ELSE 0) + CountIn(Tail(s), x)

\* The number of entries n has in the lists of children of the nodes 1..m.
RECURSIVE OccurrencesUpTo(_, _)
OccurrencesUpTo(n, m) ==
  IF m = 0 THEN 0 ELSE CountIn(Children(m), n) + OccurrencesUpTo(n, m - 1)

Occurrences(n) == OccurrencesUpTo(n, Len(p.nodes))

\* The chain of parents of n reaches the document within fuel steps.
RECURSIVE Reaches(_, _)
Reaches(n, fuel) ==
  IF n = p.doc THEN TRUE
  ELSE IF n = Nil \/ fuel = 0 THEN FALSE
  ELSE Reaches(p.nodes[n].Parent, fuel - 1)

Attached(n) == Reaches(n, Len(p.nodes))

\* C1: in the tree Parse returns, every node but the root has exactly one
\* parent and is exactly one entry of that parent's list of children; a node
\* without a parent is in no list of children.
C1_SingleParent ==
  (Returned /\ cfg.entry = "Parse") =>
    /\ p.nodes[p.doc].Parent = Nil
    /\ \A n \in NodeIds :
         LET parent == p.nodes[n].Parent IN
         /\ Occurrences(n) = IF parent = Nil THEN 0 ELSE 1
         /\ parent # Nil => CountIn(Children(parent), n) = 1
         /\ n # scopeMarker /\ n # p.doc /\ Attached(n) => parent # Nil

\* A returned tree in which fosterParent inserted an element b before a
\* table while another element b is in the tree.
C1_Witness ==
  /\ Returned /\ cfg.entry = "Parse"
  /\ \E m \in NodeIds : \E i \in 1..(Len(Children(m)) - 1) :
       /\ IsElement(Children(m)[i + 1], "table")
       /\ IsElement(Children(m)[i], "b")
       /\ \E n \in NodeIds : n # Children(m)[i] /\ IsElement(n, "b") /\ Attached(n)

C4_TextCoalesced ==
  Returned =>
    \A m \in NodeIds : \A i \in 1..(Len(Children(m)) - 1) :
      ~(p.nodes[Children(m)[i]].Type = "Text" /\ p.nodes[Children(m)[i + 1]].Type = "Text")

\* A returned tree with a Text node that holds the text of two tokens, one
\* of them foster parented.
C4_Witness ==
  /\ Returned
  /\ \E m \in NodeIds : \E i \in 1..(Len(Children(m)) - 1) :
       /\ p.nodes[Children(m)[i]].Type = "Text"
       /\ Len(p.nodes[Children(m)[i]].Text) >= 2
       /\ IsElement(Children(m)[i + 1], "table")

\* C5: when a handler is entered, every entry of the stack of open elements
\* is an Element whose chain of parents reaches the Document.
C5_OpenElementsAttached ==
  pc = "loop" =>
    \A i \in 1..Len(p.oe) : p.nodes[p.oe[i]].Type = "Element" /\ Attached(p.oe[i])

\* A handler is entered with an open element that is not the child of the
\* open element below it.
C5_Witness ==
  /\ pc = "loop"
  /\ \E i \in 2..Len(p.oe) : p.nodes[p.oe[i]].Parent # p.oe[i - 1]

\* C6: no node of the tree is a scope marker.
C6_NoMarkerInTree ==
  /\ p.nodes # <<>> => Children(scopeMarker) = <<>> /\ p.nodes[scopeMarker].Parent = Nil
  /\ \A m \in NodeIds : \A c \in ChildSet(m) : p.nodes[c].Type # "scopeMarker"

\* Text was added when the list of active formatting elements ended with a
\* marker that followed a formatting element.
C6_Witness ==
  /\ Returned /\ Len(p.afe) >= 2
  /\ isMarker(p, Last(p.afe)) /\ ~isMarker(p, p.afe[1])
  /\ \E n \in NodeIds :
       /\ p.nodes[n].Type = "Text" /\ p.nodes[n].Parent # Nil
       /\ IsElement(p.nodes[n].Parent, "applet")

\* The input without tokens was parsed.
EmptyInput == Returned /\ cfg.entry = "Parse" /\ ntok = 1

\* C7: the empty input gives a Document whose only child is html, whose
\* children are an empty head and then an empty body.
C7_EmptyInput ==
  EmptyInput =>
    /\ Len(Children(p.doc)) = 1
    /\ LET html == Children(p.doc)[1] IN
       /\ IsElement(html, "html")
       /\ Len(Children(html)) = 2
       /\ IsElement(Children(html)[1], "head") /\ Children(Children(html)[1]) = <<>>
       /\ IsElement(Children(html)[2], "body") /\ Children(Children(html)[2]) = <<>>

C7_Witness == EmptyInput /\ Len(p.nodes) = 5

\* C8: an error of the reader that is not EOF is returned at once, its token
\* is not parsed and no tree is returned; EOF is parsed once, nothing is
\* read after it, and Parse returns the Document and no error.
C8_ErrorPropagation ==
  /\ rdErr = "io" => pc = "done" /\ ret = [nodes |-> <<>>, err |-> "io"] /\ ndisp = ntok - 1
  /\ rdErr = "EOF" => pc # "read" /\ ndisp = ntok
  /\ pc \in {"return", "done"} => rdErr # "nil"
  /\ (Returned /\ cfg.entry = "Parse") => rdErr = "EOF" /\ ret.nodes = <<p.doc>>

\* The reader failed after a token that was parsed.
C8_Witness == pc = "done" /\ rdErr = "io" /\ ntok = 2 /\ ndisp = 1 /\ Len(p.nodes) > 2

\* The node whose children ParseFragment returns.
fragmentParent == IF p.context # Nil THEN fragmentRoot(cfg.context) ELSE p.doc

\* C9: ParseFragment returns the children of its root when it has a context
\* and of the Document when it has none; the returned nodes have no parent
\* and the node they were children of has no children.
C9_FragmentResult ==
  [][(pc = "return" /\ cfg.entry = "ParseFragment") =>
       /\ ret'.nodes = Children(fragmentParent) /\ ret'.err = "nil"
       /\ p'.nodes[fragmentParent].Child = <<>>
       /\ \A n \in Range(ret'.nodes) : p'.nodes[n].Parent = Nil
       /\ IsElement(fragmentParent, "html") <=> p.context # Nil]_vars

\* A fragment with a context was returned with two nodes.
C9_Witness ==
  /\ Returned /\ cfg.entry = "ParseFragment" /\ p.context # Nil
  /\ Len(ret.nodes) >= 2 /\ p.nodes[fragmentRoot(cfg.context)].Child = <<>>

\* The keys of the attributes.
Keys(attr) == {attr[i].Key : i \in 1..Len(attr)}

\* A handler of an insertion mode is about to handle a start tag html
\* while the root exists.
HtmlStartTag ==
  /\ pc = "loop" /\ p.tok.Type = "StartTag" /\ p.tok.Data = "html"
  /\ Len(p.oe) >= 1 /\ ~inForeignContent(p)
  /\ p.im \notin {"initialIM", "beforeHTMLIM", "textIM"}

\* C10: a start tag html handled when the root exists adds no node and
\* leaves the stack; the root keeps its attributes in their order and gets,
\* in the token's order, the token's attributes whose key it has not; its
\* keys stay unique.
C10_HtmlMerge ==
  [][HtmlStartTag =>
       LET root == p.oe[1]
           old == p.nodes[root].Attr
           new == SelectSeq(p.tok.Attr, LAMBDA a : a.Key \notin Keys(old))
       IN /\ pc' = "exit"
          /\ p'.oe = p.oe
          /\ p'.nodes = [p.nodes EXCEPT ![root].Attr = old \o new]
          /\ Cardinality(Keys(p'.nodes[root].Attr)) = Len(p'.nodes[root].Attr)]_vars

\* The root got the attribute of a second start tag whose other key it
\* had.
C10_Witness ==
  /\ pc = "exit" /\ p.tok.Data = "html" /\ Len(p.oe) >= 1
  /\ Len(p.nodes[p.oe[1]].Attr) = 3

\* The tree under node n: an element or the document with its tag, its
\* namespace and the trees of its children, or a text.
RECURSIVE Tree(_)
Tree(n) ==
  IF p.nodes[n].Type = "Text" THEN <<"#text", p.nodes[n].Text>>
  ELSE <<p.nodes[n].Data, p.nodes[n].Namespace,
         [i \in 1..Len(p.nodes[n].Child) |-> Tree(p.nodes[n].Child[i])]>>

Elem(tag, ns, kids) == <<tag, ns, kids>>

Txt(s) == <<"#text", s>>

\* The document whose body has the children body.
Skeleton(body) ==
  Elem("", "", <<Elem("html", "", <<Elem("head", "", <<>>), Elem("body", "", body)>>)>>)

\* Parse has returned the tree of the document name.
DocumentParsed(name) == Returned /\ cfg.alphabet = name

\* The tags of the elements of the stack s.
Tags(s) == [i \in 1..Len(s) |-> p.nodes[s[i]].Data]

\* C11: <b><i>x</b>y gives body > b > i > "x" and then a sibling i > "y":
\* the end tag b pops b and i and leaves i in the list of active
\* formatting elements, and the text y reconstructs i as a new node.
C11_AdoptionClone ==
  /\ (cfg.alphabet = "<b><i>x</b>y" /\ pc = "exit" /\ p.tok = E("b")) =>
       /\ Tags(p.oe) = <<"html", "body">>
       /\ Tags(p.afe) = <<"i">>
       /\ IsElement(p.nodes[p.afe[1]].Parent, "b")
  /\ DocumentParsed("<b><i>x</b>y") =>
       /\ Tree(p.doc) =
            Skeleton(<<Elem("b", "", <<Elem("i", "", <<Txt(<<"x">>)>>)>>),
                       Elem("i", "", <<Txt(<<"y">>)>>)>>)
       /\ Tags(p.afe) = <<"i">>
       /\ IsElement(p.nodes[p.afe[1]].Parent, "body")
       /\ Cardinality({n \in NodeIds : IsElement(n, "i")}) = 2

\* The parse of <b><i>x</b>y has returned, the clone of i a child of body.
C11_Witness ==
  /\ DocumentParsed("<b><i>x</b>y")
  /\ \E n \in NodeIds : IsElement(n, "i") /\ IsElement(p.nodes[n].Parent, "body")
                        /\ Len(Children(n)) = 1

\* C12 (as the code has it): <table><td>x</table> gives a body whose only
\* child is the table, with the implied chain tbody > tr > td, and the td
\* of the table holds the text x; no td is outside the table.
C12_ImpliedCell ==
  DocumentParsed("<table><td>x</table>") =>
    /\ Tree(p.doc) =
         Skeleton(<<Elem("table", "", <<Elem("tbody", "", <<Elem("tr", "",
                      <<Elem("td", "", <<Txt(<<"x">>)>>)>>)>>)>>)>>)
    /\ Cardinality({n \in NodeIds : IsElement(n, "td")}) = 1

\* The parse of <table><td>x</table> has returned with the text in a cell.
C12_Witness ==
  /\ DocumentParsed("<table><td>x</table>")
  /\ \E n \in NodeIds : p.nodes[n].Type = "Text" /\ p.nodes[n].Parent # Nil
                        /\ IsElement(p.nodes[n].Parent, "td")

\* C12 as stated: the body has a td with the text x before the table, and
\* the table has the chain tbody > tr > td.
C12_FosteredCell ==
  DocumentParsed("<table><td>x</table>") =>
    \E body \in NodeIds : \E i, j \in 1..Len(Children(body)) :
      /\ IsElement(body, "body")
      /\ i < j
      /\ IsElement(Children(body)[i], "td")
      /\ Tree(Children(body)[i]) = Elem("td", "", <<Txt(<<"x">>)>>)
      /\ IsElement(Children(body)[j], "table")
      /\ \E b, r, d \in NodeIds :
           /\ IsElement(b, "tbody") /\ p.nodes[b].Parent = Children(body)[j]
           /\ IsElement(r, "tr") /\ p.nodes[r].Parent = b
           /\ IsElement(d, "td") /\ p.nodes[d].Parent = r

\* C13: <p>a<p>b gives two sibling p under body, with a and with b: the
\* second start tag p pops the stack through the open p before it inserts.
C13_ImplicitClose ==
  /\ (cfg.alphabet = "<p>a<p>b" /\ pc = "exit" /\ p.tok = T("p") /\ ntok = 3) =>
       /\ Tags(p.oe) = <<"html", "body", "p">>
       /\ IsElement(p.nodes[Last(p.oe)].Parent, "body")
       /\ Children(Last(p.oe)) = <<>>
  /\ DocumentParsed("<p>a<p>b") =>
       Tree(p.doc) = Skeleton(<<Elem("p", "", <<Txt(<<"a">>)>>),
                                Elem("p", "", <<Txt(<<"b">>)>>)>>)

\* The parse of <p>a<p>b has returned with two p elements.
C13_Witness ==
  /\ DocumentParsed("<p>a<p>b")
  /\ Cardinality({n \in NodeIds : IsElement(n, "p") /\ Len(Children(n)) = 1}) = 2

\* C14: in <svg><g><foreignObject><p>x</foreignObject></g></svg> the
\* elements svg, g and foreignObject are in the namespace svg, the tag of
\* foreignObject is in mixed case, and its child p, in the namespace of
\* HTML, holds the text x.
C14_ForeignObject ==
  DocumentParsed("<svg><g><foreignObject><p>x</foreignObject></g></svg>") =>
    Tree(p.doc) =
      Skeleton(<<Elem("svg", "svg", <<Elem("g", "svg", <<Elem("foreignObject", "svg",
                   <<Elem("p", "", <<Txt(<<"x">>)>>)>>)>>)>>)>>)

\* The parse of the svg document has returned with a p under foreignObject.
C14_Witness ==
  /\ DocumentParsed("<svg><g><foreignObject><p>x</foreignObject></g></svg>")
  /\ \E n \in NodeIds : IsElement(n, "p") /\ p.nodes[p.nodes[n].Parent].Namespace = "svg"

\* The element at position i of the stack.
NodeOf(i) == p.nodes[p.oe[i]]

\* popUntil is called and returns.
PopUntilStep == pc = "start" /\ cfg.entry = "popUntil" /\ pc' = "done"

ExampleTags == <<"html", "body", "font", "table", "b", "i", "u">>

\* C15: popUntil returns true exactly when elementInScope is true for the
\* same stack, scope and tags, and when it returns false nothing has
\* changed; on the stack html, body, font, table, b, i, u
\* popUntil(tableScope, "font") returns false and leaves the stack.
C15_PopUntilResult ==
  [][PopUntilStep =>
       /\ ret'.ok = elementInScope(p, cfg.scope, cfg.tags)
       /\ ~ret'.ok => p' = p
       /\ (Tags(p.oe) = ExampleTags /\ cfg.scope = "tableScope" /\ cfg.tags = {"font"}) =>
            ~ret'.ok /\ p'.oe = p.oe]_vars

\* popUntil(tableScope, "font") has returned false on the stack html,
\* body, font, table, b, i, u.
C15_Witness ==
  /\ pc = "done" /\ cfg.entry = "popUntil" /\ ~ret.ok
  /\ cfg.scope = "tableScope" /\ cfg.tags = {"font"}
  /\ Tags(p.oe) = ExampleTags

\* The element is in the namespace of HTML and its tag is in tags.
Matches(n, tags) == n.Namespace = "" /\ n.Data \in tags

\* The stop tags of the namespaces in default, list item and button scope.
StopTagsOf(ns) ==
  CASE ns = "" -> {"applet", "caption", "html", "table", "td", "th", "marquee", "object"}
    [] ns = "math" -> {"annotation-xml", "mi", "mn", "mo", "ms", "mtext"}
    [] ns = "svg" -> {"desc", "foreignObject", "title"}
    [] OTHER -> {}

\* The element ends the scan of the scope s when it is no match.
StopsScan(s, n) ==
  \/ /\ n.Namespace = ""
     /\ \/ s = "listItemScope" /\ n.Data \in {"ol", "ul"}
        \/ s = "buttonScope" /\ n.Data = "button"
        \/ s = "tableScope" /\ n.Data \in {"html", "table"}
        \/ s = "selectScope" /\ n.Data \notin {"optgroup", "option"}
  \/ /\ s \in {"defaultScope", "listItemScope", "buttonScope"}
     /\ n.Data \in StopTagsOf(n.Namespace)

\* C16: when popUntil finds a match the stack afterwards is the part below
\* the highest element of the namespace of HTML whose tag is in tags, and
\* nothing else has changed; the highest such element is found when no
\* element above it ends the scan, also when it is a stop tag of the scope
\* itself: popUntil(tableScope, "table") on html, body, font, table, b, i, u
\* returns true and leaves html, body, font.
C16_PopUntilCut ==
  [][PopUntilStep =>
       /\ ret'.ok =>
            \E k \in 1..Len(p.oe) :
              /\ Matches(NodeOf(k), cfg.tags)
              /\ \A j \in (k + 1)..Len(p.oe) : ~Matches(NodeOf(j), cfg.tags)
              /\ p' = [p EXCEPT !.oe = SubSeq(p.oe, 1, k - 1)]
       /\ \A k \in 1..Len(p.oe) :
            (/\ Matches(NodeOf(k), cfg.tags)
             /\ \A j \in (k + 1)..Len(p.oe) :
                  ~Matches(NodeOf(j), cfg.tags) /\ ~StopsScan(cfg.scope, NodeOf(j)))
            => ret'.ok
       /\ (Tags(p.oe) = ExampleTags /\ cfg.scope = "tableScope" /\ cfg.tags = {"table"}) =>
            ret'.ok /\ p'.oe = SubSeq(p.oe, 1, 3)]_vars

\* popUntil(tableScope, "table") has left html, body, font of the stack
\* html, body, font, table, b, i, u.
C16_Witness ==
  /\ pc = "done" /\ cfg.entry = "popUntil" /\ ret.ok
  /\ cfg.scope = "tableScope" /\ cfg.tags = {"table"}
  /\ Tags(p.oe) = <<"html", "body", "font">>
  /\ Cardinality({n \in NodeIds : p.nodes[n].Type = "Element"}) = 7

\* indexOfElementInScope is called.
IndexStep == pc = "start" /\ cfg.entry = "indexOfElementInScope"

Foreign(n) == n.Namespace # ""

\* The element is foreign and its tag is a stop tag of its namespace, in a
\* scope with stop tags.
ForeignStop(s, n) ==
  /\ Foreign(n)
  /\ s \in {"defaultScope", "listItemScope", "buttonScope"}
  /\ n.Data \in StopTagsOf(n.Namespace)

\* The stack without its foreign elements that do not end the scan.
WithoutForeign(s) ==
  SelectSeq(p.oe, LAMBDA n : ~Foreign(p.nodes[n]) \/ ForeignStop(s, p.nodes[n]))

\* C17: indexOfElementInScope never finds a foreign element, whatever its
\* tag; below a foreign element with a stop tag of its namespace nothing is
\* found in default, list item and button scope; every other foreign
\* element is passed over: without them on the stack the call finds the
\* same element, finds none, or panics, as it does with them.
C17_ForeignTransparent ==
  [][IndexStep =>
       LET i == ret'.index
           without == [p EXCEPT !.oe = WithoutForeign(cfg.scope)]
           j == indexOfElementInScope(without, cfg.scope, cfg.tags)
       IN /\ i > 0 => ~Foreign(NodeOf(i))
          /\ \A k \in 1..Len(p.oe) :
               ForeignStop(cfg.scope, NodeOf(k)) => (i = 0 \/ i > k)
          /\ IF i > 0 THEN j > 0 /\ without.oe[j] = p.oe[i] ELSE j = i]_vars

\* An element was found in table scope below a foreign element whose tag
\* is one of the tags.
C17_Witness ==
  /\ pc = "done" /\ cfg.entry = "indexOfElementInScope" /\ ret.index > 0
  /\ cfg.scope = "tableScope"
  /\ \E k \in (ret.index + 1)..Len(p.oe) :
       Foreign(NodeOf(k)) /\ NodeOf(k).Data \in cfg.tags

\* The tags of the elements at which clearStackToContext stops.
Boundary(s) ==
  CASE s = "tableScope" -> {"html", "table"}
    [] s = "tableRowScope" -> {"html", "tr"}
    [] s = "tableBodyScope" -> {"html", "tbody", "tfoot", "thead"}
    [] OTHER -> {}

\* clearStackToContext is called and returns.
ClearStep == pc = "start" /\ cfg.entry = "clearStackToContext" /\ pc' = "done"

\* C18: clearStackToContext leaves the stack up to and with its highest
\* boundary element of the scope, and nothing else changes; with no
\* boundary element on the stack nothing changes.
C18_ClearToBoundary ==
  [][ClearStep =>
       LET B == {k \in 1..Len(p.oe) : NodeOf(k).Data \in Boundary(cfg.scope)} IN
       IF B = {} THEN p' = p
       ELSE \E k \in B :
              /\ \A j \in B : j <= k
              /\ p' = [p EXCEPT !.oe = SubSeq(p.oe, 1, k)]
              /\ p'.nodes[Last(p'.oe)].Data \in Boundary(cfg.scope)]_vars

\* clearStackToContext(tableRowScope) has popped elements above a tr.
C18_Witness ==
  /\ pc = "done" /\ cfg.entry = "clearStackToContext" /\ cfg.scope = "tableRowScope"
  /\ Len(p.oe) = 3 /\ NodeOf(3).Data = "tr"
  /\ Cardinality({n \in NodeIds : p.nodes[n].Type = "Element"}) > 3

\* fosterParent is called.
FosterStep == pc = "start" /\ cfg.entry = "fosterParent"

\* The positions of the stack with a table.
TablesOnStack == {k \in 1..Len(p.oe) : NodeOf(k).Data = "table"}

\* The nodes but those of S are as they were.
OthersUnchanged(S) ==
  /\ Len(p'.nodes) = Len(p.nodes) + 1
  /\ \A m \in NodeIds \ S : p'.nodes[m] = p.nodes[m]

\* C19: when the highest table of the stack has a parent, fosterParent
\* makes the node the child of that parent just before the table, the other
\* children in their order; a text after a text before the table is added
\* to that text and no node is inserted. fosterParenting is false after
\* every call.
C19_FosterBeforeTable ==
  [][FosterStep =>
       /\ pc' = "done" => ~p'.fosterParenting
       /\ (TablesOnStack # {} /\ NodeOf(Max(TablesOnStack)).Parent # Nil) =>
            LET table == p.oe[Max(TablesOnStack)]
                parent == p.nodes[table].Parent
                kids == p.nodes[parent].Child
                k == FirstIndex(kids, table)
                n == Len(p.nodes) + 1
            IN /\ pc' = "done"
               /\ p'.oe = p.oe
               /\ IF cfg.node = "Text" /\ k > 1 /\ p.nodes[kids[k - 1]].Type = "Text"
                  THEN /\ p'.nodes[kids[k - 1]] =
                            [p.nodes[kids[k - 1]] EXCEPT !.Text = @ \o <<"x">>]
                       /\ p'.nodes[n].Parent = Nil
                       /\ OthersUnchanged({kids[k - 1]})
                  ELSE /\ p'.nodes[parent] =
                            [p.nodes[parent] EXCEPT
                               !.Child = SubSeq(kids, 1, k - 1) \o <<n>>
                                         \o SubSeq(kids, k, Len(kids))]
                       /\ p'.nodes[n].Parent = parent
                       /\ p'.nodes[n].Child = <<>>
                       /\ OthersUnchanged({parent})]_vars

\* fosterParent has put an element between the element before a table and
\* the table.
C19_Witness ==
  /\ pc = "done" /\ cfg.entry = "fosterParent" /\ cfg.node = "Element"
  /\ ~p.fosterParenting
  /\ \E m \in NodeIds : \E i \in 1..Len(Children(m)) :
       /\ i + 2 <= Len(Children(m))
       /\ IsElement(Children(m)[i], "br")
       /\ Children(m)[i + 1] = Len(p.nodes)
       /\ IsElement(Children(m)[i + 2], "table")

\* C20 as stated: with no table on the stack fosterParent makes the node
\* the last child of the first element of the stack, whatever the number
\* of its children.
C20_FosterAtRootEnd ==
  [][(FosterStep /\ TablesOnStack = {} /\ Len(p.oe) > 0) =>
       LET root == p.oe[1]
           n == Len(p.nodes) + 1
       IN /\ pc' = "done"
          /\ p'.nodes[root].Child = Append(p.nodes[root].Child, n)
          /\ p'.nodes[n].Parent = root]_vars

(* ------------------------------------------------------------------ *)
(* The list of active formatting elements.                             *)
(* ------------------------------------------------------------------ *)

\* Entry i of the list of active formatting elements of q ends the backward
\* walk of the reconstruction: a marker, or an element on the stack.
StopsWalk(q, i) ==
  \/ q.nodes[q.afe[i]].Type = "scopeMarker"
  \/ \E j \in 1..Len(q.oe) : q.oe[j] = q.afe[i]

LastStop(q) ==
  IF \E i \in 1..Len(q.afe) : StopsWalk(q, i)
  THEN CHOOSE i \in 1..Len(q.afe) :
         StopsWalk(q, i) /\ \A j \in (i + 1)..Len(q.afe) : ~StopsWalk(q, j)
  ELSE 0

LastMarker(q) ==
  IF \E i \in 1..Len(q.afe) : q.nodes[q.afe[i]].Type = "scopeMarker"
  THEN CHOOSE i \in 1..Len(q.afe) :
         /\ q.nodes[q.afe[i]].Type = "scopeMarker"
         /\ \A j \in (i + 1)..Len(q.afe) : q.nodes[q.afe[j]].Type # "scopeMarker"
  ELSE 0

NothingToReconstruct(q) == q.afe = <<>> \/ StopsWalk(q, Len(q.afe))

\* r is q with the entries after the last stop replaced by fresh clones that
\* were pushed on the stack in the order of the list.
Reconstructed(q, r) ==
  IF NothingToReconstruct(q) THEN r = q
  ELSE /\ Ok(r)
       /\ Len(r.afe) = Len(q.afe)
       /\ \A i \in 1..LastStop(q) : r.afe[i] = q.afe[i]
       /\ \A i \in 1..Len(q.afe) :
            (q.nodes[q.afe[i]].Type = "scopeMarker")
              <=> (r.nodes[r.afe[i]].Type = "scopeMarker")
       /\ \A i \in (LastStop(q) + 1)..Len(q.afe) :
            /\ r.afe[i] = Len(q.nodes) + (i - LastStop(q))
            /\ r.nodes[r.afe[i]].Type = "Element"
            /\ r.nodes[r.afe[i]].Data = q.nodes[q.afe[i]].Data
            /\ r.nodes[r.afe[i]].Attr = q.nodes[q.afe[i]].Attr
            /\ r.nodes[r.afe[i]].Parent # Nil
       /\ Len(r.nodes) = Len(q.nodes) + (Len(q.afe) - LastStop(q))
       /\ r.oe = q.oe \o SubSeq(r.afe, LastStop(q) + 1, Len(q.afe))
       /\ \A i \in (LastMarker(r) + 1)..Len(r.afe) :
            \E j \in 1..Len(r.oe) : r.oe[j] = r.afe[i]

InBodyHandles(type) ==
  /\ pc = "loop" /\ nloop < MaxLoop /\ Ok(p)
  /\ p.im = "inBodyIM" /\ ~inForeignContent(p)
  /\ p.tok.Type = type

\* C22: a Text token of whitespace only that inBodyIM handles leaves
\* framesetOK unchanged; only a text with a character that is not whitespace
\* clears it.
C22_WhitespaceKeepsFramesetOK ==
  [][(InBodyHandles("Text") /\ OnlyWhitespace(p.tok.Text) = p.tok.Text)
       => p'.framesetOK = p.framesetOK]_vars

\* The second entry of the stack of open elements is the body element.
SecondIsBody == Len(p.oe) >= 2 /\ p.nodes[p.oe[2]].Data = "body"

\* The step replaced the body by a new frameset element under the root.
FramesetReplacesBody ==
  /\ p'.im = "inFramesetIM"
  /\ Len(p'.nodes) = Len(p.nodes) + 1
  /\ p'.oe = <<p.oe[1], Len(p'.nodes)>>
  /\ p'.nodes[Len(p'.nodes)].Type = "Element"
  /\ p'.nodes[Len(p'.nodes)].Data = "frameset"
  /\ p'.nodes[Len(p'.nodes)].Parent = p.oe[1]
  /\ Last(p'.nodes[p.oe[1]].Child) = Len(p'.nodes)
  /\ p'.nodes[p.oe[2]].Parent = Nil
  /\ \A n \in 1..Len(p'.nodes) :
       \A i \in 1..Len(p'.nodes[n].Child) : p'.nodes[n].Child[i] # p.oe[2]

\* C23: a frameset start tag that inBodyIM handles changes neither the tree
\* nor the stack of open elements nor the insertion mode when framesetOK is
\* false or the second entry of the stack is not the body; otherwise the body
\* is detached from its parent, the stack is cut back to the root, a frameset
\* element is inserted and the mode is inFramesetIM.
C23_Frameset ==
  [][(InBodyHandles("StartTag") /\ p.tok.Data = "frameset")
       => IF p.framesetOK /\ SecondIsBody
          THEN FramesetReplacesBody
          ELSE p'.nodes = p.nodes /\ p'.oe = p.oe /\ p'.im = p.im]_vars

\* A frameset replaced a body that had a child.
C23_Witness ==
  /\ pc = "exit" /\ p.tok.Type = "StartTag" /\ p.tok.Data = "frameset"
  /\ p.im = "inFramesetIM" /\ Len(p.oe) = 2
  /\ \E n \in 1..Len(p.nodes) :
       /\ p.nodes[n].Data = "body" /\ p.nodes[n].Parent = Nil
       /\ p.nodes[n].Child # <<>>

\* A start tag form or isindex is about to be handled by inBodyIM, or a start
\* tag form by inTableIM.
FormStartTag ==
  /\ pc = "loop" /\ nloop < MaxLoop /\ Ok(p) /\ ~inForeignContent(p)
  /\ p.tok.Type = "StartTag"
  /\ \/ p.im = "inBodyIM" /\ p.tok.Data \in {"form", "isindex"}
     \/ p.im = "inTableIM" /\ p.tok.Data = "form"

\* C24: while the form pointer is set, a start tag form in inBodyIM or
\* inTableIM and a start tag isindex in inBodyIM insert nothing and leave the
\* pointer alone; after the construction of the parser the pointer goes only
\* from unset to a form element inserted by the same step, or from set to
\* unset by an end tag form; isindex leaves it unset after inserting its form.
C24_FormPointer ==
  [][(pc # "start" /\ Ok(p')) =>
       /\ (FormStartTag /\ p.form # Nil)
            => p'.nodes = p.nodes /\ p'.oe = p.oe /\ p'.form = p.form
       /\ (p.form # Nil /\ p'.form # p.form)
            => p'.form = Nil /\ p.tok.Type = "EndTag" /\ p.tok.Data = "form"
       /\ (p.form = Nil /\ p'.form # Nil)
            => /\ p.tok.Type = "StartTag" /\ p.tok.Data = "form"
               /\ p'.form > Len(p.nodes)
               /\ p'.nodes[p'.form].Type = "Element"
               /\ p'.nodes[p'.form].Data = "form"
       /\ (FormStartTag /\ p.form = Nil /\ p.tok.Data = "isindex")
            => /\ p'.form = Nil
               /\ \E n \in (Len(p.nodes) + 1)..Len(p'.nodes) :
                    p'.nodes[n].Data = "form"]_vars

\* A start tag form or isindex was ignored in the body while the form pointer
\* pointed at a form that already had a child.
C24_Witness ==
  /\ pc = "exit" /\ p.im = "inBodyIM" /\ p.form # Nil
  /\ p.tok.Type = "StartTag" /\ p.tok.Data \in {"form", "isindex"}
  /\ p.nodes[p.form].Child # <<>>
  /\ \A n \in 1..Len(p.nodes) : p.nodes[n].Data = "form" => n = p.form

\* An end tag p is about to reach inBodyIM, directly or from a table mode
\* that hands the token on, and no p element is in button scope.
EndTagPWithoutP ==
  /\ pc = "loop" /\ nloop < MaxLoop /\ Ok(p) /\ ~inForeignContent(p)
  /\ p.tok.Type = "EndTag" /\ p.tok.Data = "p"
  /\ p.im \in {"inBodyIM", "inCaptionIM", "inCellIM", "inTableIM", "inTableBodyIM",
               "inRowIM"}
  /\ Len(p.oe) > 0
  /\ ~elementInScope(p, "buttonScope", {"p"})

\* The step added exactly one node, an empty p element, and left the stack
\* of open elements as it was.
OneEmptyP ==
  /\ Ok(p')
  /\ p'.oe = p.oe
  /\ Len(p'.nodes) = Len(p.nodes) + 1
  /\ p'.nodes[Len(p'.nodes)] =
       [NewNode("Element", "p", <<>>) EXCEPT !.Parent = p'.nodes[Len(p'.nodes)].Parent]
  /\ p'.nodes[Len(p'.nodes)].Parent # Nil
  /\ \A n \in 1..Len(p.nodes) :
       /\ p'.nodes[n] = [p.nodes[n] EXCEPT !.Child = p'.nodes[n].Child]
       /\ SelectSeq(p'.nodes[n].Child, LAMBDA c : c # Len(p'.nodes)) = p.nodes[n].Child

\* The new node is the last child of the node that was the current node.
NewChildOfCurrentNode ==
  /\ p'.nodes[Len(p'.nodes)].Parent = Last(p.oe)
  /\ Last(p'.nodes[Last(p.oe)].Child) = Len(p'.nodes)

\* The new node is the sibling before a table of the stack.
NewBeforeTable ==
  \E i \in 1..Len(p.oe) :
    /\ p.nodes[p.oe[i]].Data = "table"
    /\ p.nodes[p.oe[i]].Parent # Nil
    /\ p'.nodes[Len(p'.nodes)].Parent = p.nodes[p.oe[i]].Parent
    /\ \E k \in 1..(Len(p'.nodes[p.nodes[p.oe[i]].Parent].Child) - 1) :
         /\ p'.nodes[p.nodes[p.oe[i]].Parent].Child[k] = Len(p'.nodes)
         /\ p'.nodes[p.nodes[p.oe[i]].Parent].Child[k + 1] = p.oe[i]

\* The token reaches inBodyIM through the foster parenting of inTableIM while
\* the current node is a table, a table section or a row.
FosterParentsP ==
  /\ p.im \in {"inTableIM", "inTableBodyIM", "inRowIM"}
  /\ p.nodes[Last(p.oe)].Data \in {"table", "tbody", "tfoot", "thead", "tr"}

CommentParent ==
  IF inForeignContent(p) THEN top(p)
  ELSE IF p.im \in {"initialIM", "afterAfterBodyIM", "afterAfterFramesetIM"} THEN p.doc
  ELSE IF p.im = "afterBodyIM" THEN p.oe[1]
  ELSE top(p)

\* C26: a Comment token becomes the last child of the Document in initialIM,
\* afterAfterBodyIM and afterAfterFramesetIM, of the root element in
\* afterBodyIM, and of the current node in every other insertion mode,
\* inSelectIM and inSelectInTableIM included.
C26_CommentParent ==
  [][(pc = "loop" /\ nloop < MaxLoop /\ Ok(p) /\ p.tok.Type = "Comment")
       => /\ Ok(p')
          /\ Len(p'.nodes) = Len(p.nodes) + 1
          /\ p'.nodes[Len(p'.nodes)].Type = "Comment"
          /\ p'.nodes[Len(p'.nodes)].Parent = CommentParent
          /\ Last(p'.nodes[CommentParent].Child) = Len(p'.nodes)]_vars

(* ------------------------------------------------------------------ *)
(* The steps of Dispatch and Finish compute parseCurrentToken.         *)
(* ------------------------------------------------------------------ *)

\* The parser when the calls of parseCurrentToken and parseImpliedToken that
\* are under way in frs have returned, q being the parser at the end of the
\* loop of the innermost one.
RECURSIVE Unwind(_, _)
Unwind(q, frs) ==
  LET end(q1) ==
        IF Ok(q1) /\ q1.hasSelfClosingToken
        THEN parseImpliedToken([q1 EXCEPT !.hasSelfClosingToken = FALSE],
                               "EndTag", q1.tok.Data, MaxLoop)
        ELSE q1
      back(q1, f) ==
        IF f.from = "handler"
        THEN Unwind(tokenLoop(ApplyPosts(q1, f.post), MaxLoop), Front(frs))
        ELSE Unwind(q1, Front(frs))
      rest(q1) ==
        IF frs = <<>> \/ ~Ok(q1) THEN q1
        ELSE back([q1 EXCEPT !.tok = Last(frs).tok,
                             !.hasSelfClosingToken = Last(frs).selfClosing], Last(frs))
  IN rest(end(q))

\* The parser when the token under way in state (q, c, frs) is consumed.
Rest(q, c, frs) ==
  IF c = "loop" THEN Unwind(tokenLoop(q, MaxLoop), frs)
  ELSE IF c = "exit" THEN Unwind(q, frs)
  ELSE q

\* No step of the loop changes the parser the token ends with.
StepsComputeParseCurrentToken ==
  [][(pc \in {"loop", "exit"}) =>
       IF pc' = "panic" THEN ~Ok(Rest(p, pc, frames))
       ELSE Rest(p, pc, frames) = Rest(p', pc', frames')]_vars

(* ------------------------------------------------------------------ *)
(* Self-closing tags.                                                  *)
(* ------------------------------------------------------------------ *)

\* The tags tried as self-closing tag and as start tag and end tag.
TriedTags == {"g", "div", "p", "b", "li", "td", "option", "title", "table", "select"}

\* Parsers that agree on tree, stacks, mode and flags.
SameParser(a, b) ==
  /\ Ok(a) <=> Ok(b)
  /\ Ok(a) =>
       /\ a.nodes = b.nodes /\ a.oe = b.oe /\ a.afe = b.afe
       /\ a.im = b.im /\ a.originalIM = b.originalIM
       /\ a.head = b.head /\ a.form = b.form
       /\ a.framesetOK = b.framesetOK /\ a.fosterParenting = b.fosterParenting
       /\ a.quirks = b.quirks /\ a.hasSelfClosingToken = b.hasSelfClosingToken

\* The parser q after the token tok.
After(q, tok) == parseCurrentToken([q EXCEPT !.tok = tok], MaxLoop)

\* The handlers of the start tag t leave the self-closing flag set in q.
NotAcknowledged(q, t) ==
  LET left(q1) == Ok(q1) /\ q1.hasSelfClosingToken
  IN left(tokenLoop([q EXCEPT !.tok = T(t), !.hasSelfClosingToken = TRUE], MaxLoop))

\* C27: between two tokens, a self-closing tag that no handler acknowledges
\* leaves the parser with the tree, stacks, mode and flags that the start tag
\* followed by the end tag of the same name leaves; hasSelfClosingToken is
\* false whenever parseCurrentToken has returned to parse, and the return of
\* parseImpliedToken restores the token and the flag saved at its call.
C27_SelfClosing ==
  [][/\ (pc = "read" /\ Ok(p)) =>
          \A t \in TriedTags :
            NotAcknowledged(p, t) =>
              SameParser(After(p, SC(t)), After(After(p, T(t)), E(t)))
     /\ pc' \in {"read", "return"} => ~p'.hasSelfClosingToken /\ frames' = <<>>
     /\ (pc = "exit" /\ ~p.hasSelfClosingToken /\ frames # <<>> /\ pc' # "panic")
          => /\ p'.tok = Last(frames).tok
             /\ p'.hasSelfClosingToken = Last(frames).selfClosing]_vars

\* The end tag implied by a self-closing g in the body is being parsed, and
\* the parser between tokens distinguishes <g/> from <g>.
C27_Witness ==
  /\ pc = "loop" /\ frames # <<>> /\ Last(frames).from = "parseCurrentToken"
  /\ p.tok = E("g") /\ Last(frames).tok = T("g")
  /\ p.nodes[Last(p.oe)].Data = "g" /\ p.nodes[Last(p.oe)].Namespace = ""

(* ------------------------------------------------------------------ *)
(* The adoption agency.                                                *)
(* ------------------------------------------------------------------ *)

\* The formatting element of an end tag: the last entry with the tag after
\* the last marker of the list of active formatting elements, or Nil.
FormattingElement(q, tag) ==
  LET js == {j \in (LastMarker(q) + 1)..Len(q.afe) : q.nodes[q.afe[j]].Data = tag}
  IN IF js = {} THEN Nil ELSE q.afe[CHOOSE j \in js : \A k \in js : k <= j]

\* The position of n in the sequence s, 0 if it is not there.
PositionIn(s, n) ==
  IF \E i \in 1..Len(s) : s[i] = n THEN CHOOSE i \in 1..Len(s) : s[i] = n ELSE 0

\* The position in the stack of the furthest block of the formatting element
\* fe, 0 if there is none: the lowest special element not below fe.
FurthestBlock(q, fe) ==
  LET ks == {k \in PositionIn(q.oe, fe)..Len(q.oe) :
               k >= 1 /\ isSpecialElement(q.nodes[q.oe[k]])}
  IN IF PositionIn(q.oe, fe) = 0 \/ ks = {} THEN 0
     ELSE CHOOSE k \in ks : \A j \in ks : k <= j

\* An iteration of the outer loop that starts in q goes on to the next one:
\* the formatting element is on the stack and in scope and has a furthest
\* block.
HasFurthestBlock(q, tag) ==
  /\ FormattingElement(q, tag) # Nil
  /\ PositionIn(q.oe, FormattingElement(q, tag)) > 1
  /\ elementInScope(q, "defaultScope", {tag})
  /\ FurthestBlock(q, FormattingElement(q, tag)) # 0

\* The parser before iteration k + 1 of the outer loop of the adoption agency
\* called in q, and whether that iteration takes place.
RECURSIVE Iteration(_, _, _)
Iteration(q, tag, k) ==
  LET after(prev) ==
        IF prev.live /\ Ok(prev.p)
        THEN [p |-> agencyOuter(prev.p, tag, 7),
              live |-> k < 8 /\ HasFurthestBlock(prev.p, tag)]
        ELSE [prev EXCEPT !.live = FALSE]
  IN IF k = 0 THEN [p |-> q, live |-> TRUE] ELSE after(Iteration(q, tag, k - 1))

\* inBodyIM is about to call inBodyEndTagFormatting for the token.
AgencyCall ==
  InBodyHandles("EndTag") /\ p.tok.Data \in formattingTags

\* inBodyEndTagFormatting is the sequence of its iterations.
AgencyIterates ==
  inBodyEndTagFormatting(p, p.tok.Data) = Iteration(p, p.tok.Data, 8).p

\* The iteration that starts in q finds a formatting element that is not on
\* the stack.
NotOnStack(q, tag) ==
  /\ Ok(q)
  /\ FormattingElement(q, tag) # Nil
  /\ PositionIn(q.oe, FormattingElement(q, tag)) = 0

\* C28: an iteration of the adoption agency whose formatting element is not
\* on the stack of open elements removes it from the list of active
\* formatting elements and changes nothing else, and it is the last one.
C28_NotOnStack ==
  AgencyCall =>
    /\ AgencyIterates
    /\ \A k \in 0..7 :
         (Iteration(p, p.tok.Data, k).live /\ NotOnStack(Iteration(p, p.tok.Data, k).p, p.tok.Data))
           => LET q == Iteration(p, p.tok.Data, k).p
                  j == PositionIn(q.afe, FormattingElement(q, p.tok.Data))
              IN /\ agencyOuter(q, p.tok.Data, k)
                      = [q EXCEPT !.afe = SubSeq(@, 1, j - 1) \o SubSeq(@, j + 1, Len(@))]
                 /\ ~Iteration(p, p.tok.Data, k + 1).live
                 /\ Iteration(p, p.tok.Data, 8).p = agencyOuter(q, p.tok.Data, k)

\* An end tag b finds two b elements in the list, neither on the stack.
C28_Witness ==
  /\ AgencyCall /\ NotOnStack(p, p.tok.Data)
  /\ Len(p.afe) >= 2
  /\ Len(inBodyEndTagFormatting(p, p.tok.Data).afe) = Len(p.afe) - 1
  /\ inBodyEndTagFormatting(p, p.tok.Data).nodes = p.nodes
  /\ inBodyEndTagFormatting(p, p.tok.Data).oe = p.oe

\* The position in the list of active formatting elements that the clone of
\* the formatting element fe takes: that of fe, unless the inner loop clones
\* an element between fe and the furthest block (it looks at three elements
\* at most); then the position after the clone of the highest such element.
BookmarkPosition(q, fe) ==
  LET fb == FurthestBlock(q, fe)
      lo == Max({PositionIn(q.oe, fe) + 1, fb - 3})
      between == {x \in lo..(fb - 1) : PositionIn(q.afe, q.oe[x]) # 0}
  IN IF between = {} THEN PositionIn(q.afe, fe)
     ELSE LET pos == PositionIn(q.afe, q.oe[Max(between)])
          IN IF PositionIn(q.afe, fe) < pos THEN pos ELSE pos + 1

\* The iteration that leads from q to r replaced the formatting element by
\* its clone under the furthest block.
Adopted(q, r, tag) ==
  LET fe == FormattingElement(q, tag)
      fb == q.oe[FurthestBlock(q, fe)]
      c == Len(r.nodes)
  IN /\ Len(r.nodes) > Len(q.nodes)
     /\ r.nodes[c].Type = "Element" /\ r.nodes[c].Data = tag
     /\ r.nodes[c].Attr = q.nodes[fe].Attr
     /\ PositionIn(r.oe, fe) = 0 /\ PositionIn(r.afe, fe) = 0
     /\ PositionIn(r.oe, fb) # 0
     /\ PositionIn(r.oe, c) = PositionIn(r.oe, fb) + 1
     /\ PositionIn(r.afe, c) = BookmarkPosition(q, fe)
     /\ Cardinality({i \in 1..Len(r.oe) : r.oe[i] = c}) = 1
     /\ Cardinality({i \in 1..Len(r.afe) : r.afe[i] = c}) = 1
     /\ r.nodes[fb].Child = <<c>>
     /\ r.nodes[c].Parent = fb
     /\ r.nodes[c].Child = q.nodes[fb].Child
     /\ \A i \in 1..Len(r.nodes[c].Child) : r.nodes[r.nodes[c].Child[i]].Parent = c

\* C29: after an iteration of the adoption agency that found a furthest block
\* the formatting element is neither on the stack of open elements nor in the
\* list of active formatting elements; its clone is on the stack right after
\* the furthest block and in the list at the bookmark; the clone is the only
\* child of the furthest block and has the children the furthest block had,
\* in their order.
C29_Adopted ==
  AgencyCall =>
    /\ AgencyIterates
    /\ \A k \in 0..7 :
         (/\ Iteration(p, p.tok.Data, k).live
          /\ Ok(Iteration(p, p.tok.Data, k).p)
          /\ HasFurthestBlock(Iteration(p, p.tok.Data, k).p, p.tok.Data)
          /\ Ok(Iteration(p, p.tok.Data, k + 1).p))
           => Adopted(Iteration(p, p.tok.Data, k).p, Iteration(p, p.tok.Data, k + 1).p,
                      p.tok.Data)

\* An end tag b finds a furthest block with a child, above a formatting
\* element that the inner loop clones, so that the bookmark moves.
C29_Witness ==
  /\ AgencyCall /\ HasFurthestBlock(p, p.tok.Data)
  /\ Ok(Iteration(p, p.tok.Data, 1).p)
  /\ Len(p.nodes[p.oe[FurthestBlock(p, FormattingElement(p, p.tok.Data))]].Child) >= 1
  /\ BookmarkPosition(p, FormattingElement(p, p.tok.Data))
       # PositionIn(p.afe, FormattingElement(p, p.tok.Data))
  /\ C29_Adopted

(* ------------------------------------------------------------------ *)
(* End tags in foreign content.                                        *)
(* ------------------------------------------------------------------ *)

\* An end tag is about to be handled by parseForeignContent.
ForeignEndTag ==
  /\ pc = "loop" /\ nloop < MaxLoop /\ Ok(p) /\ inForeignContent(p)
  /\ p.tok.Type = "EndTag"

\* Entry i of the stack ends the walk of the end tag: an HTML element, or an
\* element whose tag is the token's but for the case of the letters.
EndsWalk(i) ==
  \/ p.nodes[p.oe[i]].Namespace = ""
  \/ EqualFold(p.nodes[p.oe[i]].Data, p.tok.Data)

\* The entry at which the walk from the top of the stack ends, 0 if none.
WalkEnd ==
  IF \E i \in 1..Len(p.oe) : EndsWalk(i)
  THEN CHOOSE i \in 1..Len(p.oe) : EndsWalk(i) /\ \A j \in (i + 1)..Len(p.oe) : ~EndsWalk(j)
  ELSE 0

\* The walk ends at a foreign element with the tag of the token.
ForeignMatch == WalkEnd # 0 /\ p.nodes[p.oe[WalkEnd]].Namespace # ""

\* The step is the step of the current insertion mode.
HandedToMode ==
  \A r \in {run(p, p.im)} :
    IF ~Ok(r.p) THEN pc' = "panic"
    ELSE IF r.call # NoCall THEN p'.tok = Tok(r.call.Type, r.call.Data, <<>>)
    ELSE p' = r.p

\* C30: an end tag in foreign content walks the stack of open elements from
\* the top; at an HTML element the token is handed to the current insertion
\* mode; at a foreign element with the tag of the token, compared without
\* regard to case, the stack is cut below that element, which is popped with
\* the elements above it; nothing else changes.
C30_ForeignEndTag ==
  [][ForeignEndTag =>
       IF ForeignMatch
       THEN p' = [p EXCEPT !.oe = SubSeq(p.oe, 1, WalkEnd - 1)]
       ELSE WalkEnd # 0 => HandedToMode]_vars

\* C30 as stated: the matching foreign element stays on the stack.
C30_MatchStays ==
  [][(ForeignEndTag /\ ForeignMatch)
       => p'.oe = SubSeq(p.oe, 1, WalkEnd)]_vars

\* An end tag finds its foreign element below another foreign element.
C30_Witness ==
  /\ ForeignEndTag /\ ForeignMatch
  /\ WalkEnd < Len(p.oe)
  /\ dispatch(p).p.oe = SubSeq(p.oe, 1, WalkEnd - 1)

(* ------------------------------------------------------------------ *)
(* Breakout start tags in foreign content.                             *)
(* ------------------------------------------------------------------ *)

\* A breakout start tag is about to be handled by parseForeignContent.
BreakoutStartTag ==
  /\ pc = "loop" /\ nloop < MaxLoop /\ Ok(p) /\ inForeignContent(p)
  /\ p.tok.Type = "StartTag"
  /\ \/ p.tok.Data \in breakout
     \/ /\ p.tok.Data = "font"
        /\ \E i \in 1..Len(p.tok.Attr) : p.tok.Attr[i].Key \in {"color", "face", "size"}

\* Entry i of the stack ends the pops of a breakout start tag.
Exposed(i) ==
  \/ p.nodes[p.oe[i]].Namespace = ""
  \/ htmlIntegrationPoint(p.nodes[p.oe[i]])
  \/ mathMLTextIntegrationPoint(p.nodes[p.oe[i]])

\* The highest such entry.
HighestExposed ==
  CHOOSE i \in 1..Len(p.oe) : Exposed(i) /\ \A j \in (i + 1)..Len(p.oe) : ~Exposed(j)

\* C31: a breakout start tag, or a font start tag with a color, face or size
\* attribute, that parseForeignContent handles inserts nothing and cuts the
\* stack of open elements above its highest element that is in the HTML
\* namespace or an integration point; the token is not consumed, and the
\* next iteration of the loop hands it to the current insertion mode.
C31_Breakout ==
  [][BreakoutStartTag =>
       /\ \E i \in 1..Len(p.oe) : Exposed(i)
       /\ HighestExposed < Len(p.oe)
       /\ p' = [p EXCEPT !.oe = SubSeq(p.oe, 1, HighestExposed)]
       /\ pc' = "loop" /\ frames' = frames
       /\ ~inForeignContent(p')
       /\ dispatch(p') = run(p', p'.im)]_vars

\* A breakout start tag finds a foreign element above an integration point.
C31_Witness ==
  /\ BreakoutStartTag
  /\ HighestExposed < Len(p.oe)
  /\ p.nodes[p.oe[HighestExposed]].Namespace # ""
  /\ dispatch(p).p.oe = SubSeq(p.oe, 1, HighestExposed)
  /\ ~dispatch(p).consumed

(* ------------------------------------------------------------------ *)
(* The text insertion mode.                                            *)
(* ------------------------------------------------------------------ *)

\* C32: whenever parseCurrentToken's loop dispatches a token, originalIM is
\* set exactly if the insertion mode is textIM; a step into textIM saves the
\* mode it leaves, a step out of textIM goes back to the saved mode and
\* clears it, as textIM does for a token of any other type, which it does not
\* consume, and setOriginalIM never finds the mode saved already.
C32_OriginalIM ==
  [][(pc = "loop" /\ Ok(p)) =>
       /\ (p.originalIM # "nil") <=> (p.im = "textIM")
       /\ (p.im # "textIM" /\ p'.im = "textIM")
            => p'.originalIM = p.im /\ p.tok.Type = "StartTag"
       /\ (p.im = "textIM" /\ p'.im # "textIM")
            => p'.im = p.originalIM /\ p'.originalIM = "nil"
       /\ (p.im = "textIM" /\ p.tok.Type # "Text" /\ Ok(p')) => p'.im # "textIM"
       /\ p.im = "textIM" =>
            \A tok \in {Tok("Comment", "c", <<>>), T("div"), Tok("Doctype", "html", <<>>)} :
              \A r \in {textIM([p EXCEPT !.tok = tok])} :
                /\ ~r.consumed /\ r.p.oe = p.oe /\ r.p.nodes = p.nodes
                /\ r.p.im = p.originalIM /\ r.p.originalIM = "nil"
       /\ p'.panic # "html: bad parser state: originalIM was set twice"]_vars

\* The end of the input is dispatched in text mode, entered from a mode
\* other than inHeadIM.
C32_Witness ==
  /\ pc = "loop" /\ Ok(p) /\ p.im = "textIM" /\ p.tok.Type = "Error"
  /\ p.originalIM \notin {"nil", "inHeadIM"}

\* A handler switches the parser to text mode.
EntersText ==
  pc = "loop" /\ nloop < MaxLoop /\ Ok(p) /\ p.im # "textIM" /\ p'.im = "textIM"

\* The current node after the step is the element the step has inserted for
\* its start tag.
TopIsInserted ==
  /\ Len(p'.oe) > 0
  /\ Last(p'.oe) > Len(p.nodes)
  /\ p'.nodes[Last(p'.oe)].Type = "Element"
  /\ p'.nodes[Last(p'.oe)].Data = p.tok.Data

\* C33: when a handler has switched the parser to text mode, the current
\* node is the element inserted for the start tag that caused the switch, in
\* afterHeadIM as in every other mode.
C33_CurrentNode ==
  [][EntersText => TopIsInserted]_vars

\* C33 outside afterHeadIM: in every other mode the switch to text mode
\* leaves the inserted element on top of the stack.
C33_OtherModes ==
  [][(EntersText /\ p.im # "afterHeadIM") => TopIsInserted]_vars

\* In afterHeadIM the deferred pop removes the inserted element and leaves
\* the head element, pushed for the call of inHeadIM, as current node.
C33_HeadStays ==
  [][(EntersText /\ p.im = "afterHeadIM") =>
       /\ p'.oe = Append(p.oe, p.head)
       /\ p'.nodes[Len(p'.nodes)].Data = p.tok.Data
       /\ p'.nodes[Len(p'.nodes)].Parent = p.head]_vars

\* Text mode entered from afterHeadIM with the head element as current node.
C33_HeadOnTop ==
  /\ pc = "loop" /\ Ok(p) /\ p.im = "textIM" /\ p.originalIM = "afterHeadIM"
  /\ Last(p.oe) = p.head

(* ------------------------------------------------------------------ *)
(* Text in tables.                                                     *)
(* ------------------------------------------------------------------ *)

\* The text of a token or node holds a character that is not whitespace.
NonWhitespace(s) == Len(Trim(StripNul(s))) > 0

\* inTableIM, or inTableBodyIM or inRowIM through it, handles a Text token
\* with a non-whitespace character while the current node is a table, a
\* table section or a row.
TableText ==
  /\ pc = "loop" /\ nloop < MaxLoop /\ Ok(p) /\ Len(p.oe) > 0
  /\ p.im \in {"inTableIM", "inTableBodyIM", "inRowIM"} /\ ~inForeignContent(p)
  /\ p.tok.Type = "Text" /\ NonWhitespace(p.tok.Text)
  /\ p.nodes[Last(p.oe)].Data \in tableTags

\* The step leaves the current node and the nodes under it as they are.
OutsideCurrentNode ==
  /\ Ok(p')
  /\ p'.nodes[Last(p.oe)] = p.nodes[Last(p.oe)]
  /\ \A k \in 1..Len(p.nodes) :
       p.nodes[k].Parent = Last(p.oe) => p'.nodes[k] = p.nodes[k]
  /\ \A k \in 1..Len(p'.nodes) :
       k > Len(p.nodes) => p'.nodes[k].Parent # Last(p.oe)

\* The current node's last child is a Text node.
LastChildIsText ==
  /\ Len(p.nodes[Last(p.oe)].Child) > 0
  /\ p.nodes[Last(p.nodes[Last(p.oe)].Child)].Type = "Text"

\* C34: text with a non-whitespace character that inTableIM handles with a
\* table, tbody, tfoot, thead or tr as current node is not stored inside the
\* current node, also when the current node's last child is a Text node.
C34_FosterParented ==
  [][TableText => OutsideCurrentNode]_vars

\* C34 when the current node's last child is not a Text node: the text is
\* foster-parented, the current node stays as it is.
C34_NoTextChild ==
  [][(TableText /\ ~LastChildIsText) => OutsideCurrentNode]_vars

\* When the current node's last child is a Text node, addText appends the
\* token's text to it and the tree has no new node.
C34_Appended ==
  [][(TableText /\ LastChildIsText) =>
       \A t \in {Last(p.nodes[Last(p.oe)].Child)} :
         /\ Len(p'.nodes) = Len(p.nodes)
         /\ p'.nodes[t].Text = p.nodes[t].Text \o StripNul(p.tok.Text)]_vars

\* A table, a table section or a row has only whitespace Text children.
C34_WhitespaceChildren ==
  \A k \in 1..Len(p.nodes) :
    (/\ p.nodes[k].Type = "Text" /\ p.nodes[k].Parent # Nil
     /\ p.nodes[p.nodes[k].Parent].Type = "Element"
     /\ p.nodes[p.nodes[k].Parent].Data \in tableTags)
      => ~NonWhitespace(p.nodes[k].Text)

(* ------------------------------------------------------------------ *)
(* The root element.                                                   *)
(* ------------------------------------------------------------------ *)

\* The bottom of the stack of open elements is the html element under the
\* document.
RootAtBottom ==
  /\ Len(p.oe) > 0
  /\ p.nodes[p.oe[1]].Type = "Element" /\ p.nodes[p.oe[1]].Data = "html"
  /\ p.nodes[p.oe[1]].Namespace = "" /\ p.nodes[p.oe[1]].Parent = p.doc

\* C35: whenever a handler is entered in a mode after beforeHTMLIM the stack
\* of open elements is not empty and its bottom entry is the root html
\* element; no step removes or replaces the bottom entry of the stack, and no
\* handler panics.
C35_RootStays ==
  [][/\ (pc = "loop" /\ Ok(p) /\ p.im \notin {"initialIM", "beforeHTMLIM"}) => RootAtBottom
     /\ (Len(p.oe) > 0) => (Len(p'.oe) > 0 /\ p'.oe[1] = p.oe[1])
     /\ Ok(p')]_vars

\* inSelectIM has handled an end tag optgroup with an option on top of the
\* root element: its walk down from the option ended on the root.
C35_Witness ==
  /\ pc = "exit" /\ Ok(p) /\ p.im = "inSelectIM"
  /\ p.tok.Type = "EndTag" /\ p.tok.Data = "optgroup"
  /\ Len(p.oe) = 2 /\ p.nodes[p.oe[2]].Data = "option" /\ RootAtBottom

====
